---- MODULE Spec2Model ----
(***************************************************************************)
(* Model of the sign_plugin: the card renderer (src/draw.py) and the       *)
(* sign-in data (src/handle.py, src/database.py, src/plugin.py).           *)
(*                                                                         *)
(* Text is a sequence of Unicode code points (integers).  A cluster, a run *)
(* text and a truncated text are sequences of code points as well.  Pixel  *)
(* widths are integers.                                                    *)
(*                                                                         *)
(* The specifications share the variables:                                 *)
(*   SpecText  - the text pipeline: _split_text_clusters,                  *)
(*               _build_text_chunks, _measure_text_mixed and               *)
(*               _truncate_text_to_width on bounded texts;                  *)
(*   SpecStat  - the numbers _draw_sync derives from the user data: the    *)
(*               affinity progress ratio and the streak bonus;             *)
(*   Spec      - one execution of ImageGen._draw: _prepare_resources, then *)
(*               the steps of _draw_sync, then the return to the caller;   *)
(*   SpecPath  - the file names of the image directory:                    *)
(*               _sanitize_path_token, _join_image_path and the two path   *)
(*               builders on bounded user ids and dates;                   *)
(*   SpecFont  - the font path lists and the font chosen for a cluster;    *)
(*   SpecAvatars - the concurrent avatar fetches of the ranking image;     *)
(*   SpecBadge - the geometry of the avatar badge and the nickname plate;  *)
(*   SpecNick  - the nickname-fitting loop under every measurement;       *)
(*   SpecInfo  - the placement of the info line above the footer;         *)
(*   SpecMix   - one call of _draw_text_mixed and its draw.text calls;     *)
(*   SpecSign  - the sign-in records of one user over several days         *)
(*               (src/handle.py, src/database.py, Sign.execute);           *)
(*   SpecResign - resign cards: use_resign_card from the shop and         *)
(*               auto_resign_with_owned_card, followed by sign-ins;        *)
(*   SpecRace  - two concurrent Sign.execute of one user on one day.       *)
(***************************************************************************)
EXTENDS Integers, Sequences, FiniteSets, TLC

VARIABLES
    \* ---- SpecText
    tpc,            \* position of the text pipeline
    text,           \* the input text
    max_width,      \* the pixel budget handed to _truncate_text_to_width
    fontEnv,        \* the font files that exist on this machine
    _font_paths_cache,  \* self._font_paths_cache: the four category lists
    clusters,       \* result of _split_text_clusters(text)
    truncated,      \* result of _truncate_text_to_width(text, size, max_width)
    retruncated,    \* result of truncating `truncated` again
    \* ---- SpecStat
    spc,            \* position of the progress computation
    level,          \* userdata["level"]; <<>> is None, <<n>> the number n
    next_score,     \* components.next_score, in thousandths
    impression,     \* userdata["impression"], in thousandths; <<>> is None
    progress,       \* outcome of lines 1007-1012 for this render
    prev_impression,    \* the impression of the user's previous render
    prev_progress,      \* the outcome of the user's previous render
    \* ---- Spec: one execution of ImageGen._draw
    dpc,            \* the statement _draw / _draw_sync is at
    use_local_bg,   \* components.use_local_bg
    continuous_days,    \* userdata["continuous_days"]; <<>> is None
    fault,          \* the step at which the environment fails, or "none"
    bg_data,        \* self.bg_data
    avatar_data,    \* self.avatar_data
    av_img,         \* what is pasted into the avatar slot
    bonus_percent,  \* result of _get_streak_bonus_percent, <<>> before
    done_steps,     \* the steps of _draw_sync that completed
    raised_at,      \* the step of _draw_sync that raised, "" if none
    cache_file,     \* the per-user-per-day cache file
    cache_before,   \* the cache file as it was when _draw was called
    result,         \* what _draw returned: "pending", "png" or "None"
    escaped,        \* an exception left _draw
    fetch_state,    \* per fetch of _prepare_resources: idle, in_flight, done
    open_layers,    \* the images _draw_sync created and has not closed
    \* ---- SpecPath: the path builders
    ppc,            \* position of the path computation
    userid,         \* a user id; <<>> is None, <<s>> the string s
    other_userid,   \* the id of another user of the same day
    date_text,      \* the date value; <<>> is None, <<s>> the string s
    safe_tokens,    \* <<safe_uid, safe_date>> of _build_sign_cache_path
    cache_path,     \* outcome of _build_sign_cache_path(userid, date_text)
    background_path,    \* outcome of _build_background_path(userid, date_text)
    other_cache_path,   \* outcome of _build_sign_cache_path(other_userid, ..)
    \* ---- SpecFont: the font path lists and the font of one cluster
    fpc,            \* position of the font computation
    dedupe_input,   \* the candidate paths handed to _dedupe_font_paths
    dedupe_result,  \* what _dedupe_font_paths returned for them
    chosen_cluster, \* the cluster handed to _choose_font
    chosen_font,    \* what _choose_font returned for it
    built_text,     \* the text handed to _build_text_chunks
    built_chunks,   \* the runs _build_text_chunks returned for it
    \* ---- SpecAvatars: ImpressionRankingImageGen._prepare_avatars
    apc,            \* position of _prepare_avatars
    entries,        \* the user_id of each entry of self.entries, "" for None
    user_ids,       \* the local list user_ids
    task,           \* per fetch_one task: new, in_flight or done
    permits,        \* the free permits of the semaphore
    requests,       \* per task: the number of session.get calls it made
    avatar_map,     \* the local avatar_map: the ids with stored bytes
    \* ---- SpecBadge: the badge geometry of _draw_sync
    bpc,            \* position of the geometry computation
    target_height,  \* the height of the canvas
    nickname_len,   \* the number of glyphs of the nickname
    badge,          \* the badge geometry of lines 821-857
    npc,            \* position of the nickname loop of lines 842-854
    font_size,      \* nickname_font_size
    padding_x,      \* nickname_padding_x
    shrink_steps,   \* how often line 852 has run
    measured_w,     \* the nickname_w of the last measurement; <<>> before
    ipc,            \* position of the info line placement of lines 1041-1060
    label_h,        \* <<date_h, bonus_h, continuous_h>> as measured
    info_y,         \* [unadjusted, drawn, bottom] of the info line; <<>> before
    \* ---- SpecSign: the sign-in data of one user
    hpc,            \* position of Sign.execute
    today,          \* the calendar day, as a day number
    config_next_score,  \* components.next_score, in hundredths
    sign_row,       \* the user's row of sign_data; <<>> when absent
    wallet_row,     \* the user's coins in wallet_data; <<>> when absent
    inventory,      \* the user's resign cards; <<>> without the shop plugin
    call,           \* the last Sign.execute: its inputs, what it read, outcome
    signed_days,    \* the days on which a sign-in of the user completed
    used_cards,     \* the number of resign cards the user has consumed
    calls,          \* SpecRace: per concurrent Sign.execute its position,
                    \* its inputs and the userdata it holds
    \* ---- SpecMix: one call of _draw_text_mixed
    mpc,            \* position of the call
    mix_text,       \* the text argument
    anchor,         \* the anchor argument, <<"m", "b">> for "mb"
    shadow_color,   \* the shadow_color argument; <<>> is None
    shadow_offset,  \* the shadow_offset argument <<dx, dy>>
    draw_calls      \* the draw.text calls made so far, in order

textVars == <<tpc, text, max_width, fontEnv, _font_paths_cache, clusters,
              truncated, retruncated>>
statVars == <<spc, level, next_score, impression, progress, prev_impression,
              prev_progress>>
drawVars == <<dpc, use_local_bg, continuous_days, fault, bg_data, avatar_data,
              av_img, bonus_percent, done_steps, raised_at, cache_file,
              cache_before, result, escaped, fetch_state, open_layers>>
pathVars == <<ppc, userid, other_userid, date_text, safe_tokens, cache_path,
              background_path, other_cache_path>>
\* The variables of the specifications that follow the first three.
fontVars == <<fpc, dedupe_input, dedupe_result, chosen_cluster, chosen_font,
              built_text, built_chunks>>
poolVars == <<apc, entries, user_ids, task, permits, requests, avatar_map>>
badgeVars == <<bpc, target_height, nickname_len, badge, npc, font_size,
               padding_x, shrink_steps, measured_w, ipc, label_h, info_y>>
signVars == <<hpc, today, config_next_score, sign_row, wallet_row, inventory,
              call, signed_days, used_cards, calls>>
layoutVars == <<mpc, mix_text, anchor, shadow_color, shadow_offset, draw_calls>>
extVars == <<pathVars, fontVars, poolVars, badgeVars, layoutVars, signVars>>
vars == <<textVars, statVars, drawVars, extVars>>

(***************************************************************************)
(* Bounds of the model.                                                    *)
(***************************************************************************)
MaxLen == 3         \* longest input text, in code points
MaxWidth == 6       \* largest pixel budget tried
MaxImpression == 25 \* largest |impression| tried, in thousandths
MaxStreak == 8      \* longest streak tried, in days

(***************************************************************************)
(* Code points.  One representative per class the code distinguishes.      *)
(***************************************************************************)
ZWJ == 8205                 \* U+200D zero-width joiner
VS15 == 65038               \* U+FE0E variation selector 15
VS16 == 65039               \* U+FE0F variation selector 16
CpLatinA == 97              \* 'a'
CpDot == 46                 \* '.'
CpCjk == 20013              \* U+4E2D
CpEmoji == 127881           \* U+1F389
CpAcute == 769              \* U+0301 combining acute accent
CpFwComma == 65292          \* U+FF0C fullwidth comma

CodePoints == {CpLatinA, CpDot, CpCjk, CpEmoji, CpAcute, ZWJ, VS16}

\* unicodedata.combining(char): the canonical combining class (0 = not a mark).
Combining(char) == IF char = CpAcute THEN 230 ELSE 0

\* unicodedata.category(char), for the code points of the model.
Category(char) ==
    CASE char = CpLatinA -> "Ll"
      [] char = CpDot    -> "Po"
      [] char = CpCjk    -> "Lo"
      [] char = CpEmoji  -> "So"
      [] char = CpAcute  -> "Mn"
      [] char = ZWJ      -> "Cf"
      [] char = VS15     -> "Mn"
      [] char = VS16     -> "Mn"
      [] char = CpFwComma -> "Po"
      [] OTHER           -> "Cn"

\* unicodedata.east_asian_width(char), for the code points of the model.
EastAsianWidth(char) ==
    CASE char = CpLatinA -> "Na"
      [] char = CpDot    -> "Na"
      [] char = CpCjk    -> "W"
      [] char = CpEmoji  -> "W"
      [] char = CpAcute  -> "A"
      [] char = ZWJ      -> "N"
      [] char = VS15     -> "A"
      [] char = VS16     -> "A"
      [] char = CpFwComma -> "F"
      [] OTHER           -> "N"

\* char.isdigit() and char.isspace(): false on every code point of the model.
IsDigit(char) == char \in 48..57
IsSpace(char) == char \in {9, 10, 11, 12, 13, 32}

(***************************************************************************)
(* Sequence helpers.                                                       *)
(***************************************************************************)
RECURSIVE Concat(_)
Concat(seqs) == IF seqs = <<>> THEN <<>> ELSE Head(seqs) \o Concat(Tail(seqs))

RECURSIVE SumSeq(_)
SumSeq(ns) == IF ns = <<>> THEN 0 ELSE Head(ns) + SumSeq(Tail(ns))


(***************************************************************************)
(* 4.1 Grapheme segmenter: ImageGen._split_text_clusters.                  *)
(***************************************************************************)
\* The test of lines 333-337: char is appended to the open cluster.
JoinsCurrentNoZwjLookback(char, current) ==
    \/ Combining(char) # 0
    \/ char \in {ZWJ, VS15, VS16}

JoinsCurrent(char, current) ==
    \/ Combining(char) # 0
    \/ char \in {ZWJ, VS15, VS16}
    \/ current[Len(current)] = ZWJ

\* Lines 344-346: the open cluster is flushed after the loop.
SplitFinishDropped(done, current) == done

SplitFinish(done, current) ==
    IF current # <<>> THEN Append(done, current) ELSE done

\* The loop of lines 326-342, from index i on.
RECURSIVE SplitLoop(_, _, _, _)
SplitLoop(t, i, done, current) ==
    IF i > Len(t) THEN SplitFinish(done, current)
    ELSE LET char == t[i] IN
         IF current = <<>> THEN SplitLoop(t, i + 1, done, <<char>>)
         ELSE IF JoinsCurrent(char, current)
              THEN SplitLoop(t, i + 1, done, Append(current, char))
              ELSE SplitLoop(t, i + 1, Append(done, current), <<char>>)

_split_text_clusters(t) ==
    IF t = <<>> THEN <<>> ELSE SplitLoop(t, 1, <<>>, <<>>)

(***************************************************************************)
(* 4.2 Script/category classifier.                                         *)
(***************************************************************************)
IsCjkCode(code) ==
    \/ (19968 <= code /\ code <= 40959)         \* 0x4E00..0x9FFF
    \/ (13312 <= code /\ code <= 19903)         \* 0x3400..0x4DBF
    \/ (63744 <= code /\ code <= 64255)         \* 0xF900..0xFAFF

_contains_cjk(s) == \E i \in 1..Len(s) : IsCjkCode(s[i])

IsEmojiCode(code) ==
    \/ (126976 <= code /\ code <= 129791)       \* 0x1F000..0x1FAFF
    \/ (9728 <= code /\ code <= 10175)          \* 0x2600..0x27BF
    \/ (8960 <= code /\ code <= 9215)           \* 0x2300..0x23FF

_contains_emoji(s) == \E i \in 1..Len(s) : IsEmojiCode(s[i])

IsAsciiAlnumChar(char) ==
    \/ (65 <= char /\ char <= 90)               \* "A".."Z"
    \/ (97 <= char /\ char <= 122)              \* "a".."z"
    \/ IsDigit(char)

_contains_ascii_alnum(s) == \E i \in 1..Len(s) : IsAsciiAlnumChar(s[i])

IsPunctOrSymbol(char) ==
    Category(char) \in {"Pc", "Pd", "Ps", "Pe", "Pi", "Pf", "Po",
                        "Sm", "Sc", "Sk", "So"}

IsAsciiPunctChar(char) ==
    /\ char <= 127
    /\ (IsPunctOrSymbol(char) \/ IsSpace(char))

_is_ascii_punct_cluster(s) ==
    s # <<>> /\ \A i \in 1..Len(s) : IsAsciiPunctChar(s[i])

IsFullwidthPunctChar(char) ==
    /\ IsPunctOrSymbol(char)
    /\ EastAsianWidth(char) \in {"W", "F", "A"}

_is_fullwidth_punct_cluster(s) ==
    s # <<>> /\ \A i \in 1..Len(s) : IsFullwidthPunctChar(s[i])

(***************************************************************************)
(* 4.3 Font resolution table.  A font file is named by the group it stands *)
(* for; fontEnv is the set of files that exist.                            *)
(***************************************************************************)
FONT_PATH_ZH == "zh_font"
FONT_PATH_EN == "en_font"
SYSTEM_LATIN_FONT_PATHS == <<"sysLatin">>
SYSTEM_CJK_FONT_PATHS == <<"sysCJK">>
SYSTEM_EMOJI_FONT_PATHS == <<"sysEmoji">>

FontFiles == {FONT_PATH_ZH, FONT_PATH_EN, "sysLatin", "sysCJK", "sysEmoji"}

\* os.path.normcase(os.path.abspath(path)) on the file names of the model:
\* "./zh_font" and "./sysLatin" are relative forms of "zh_font" and
\* "sysLatin"; every other name is its own normal form.
NormPath(path) ==
    CASE path = "./zh_font"  -> FONT_PATH_ZH
      [] path = "./sysLatin" -> "sysLatin"
      [] OTHER               -> path

\* A test that takes every path for a file.
FontExistsAlways(path, env) == TRUE

\* Lines 226-228: bool(path and os.path.isfile(path)); env holds the files
\* of the machine under their normal names.
_font_exists(path, env) == path # "" /\ NormPath(path) \in env

\* The loop of _dedupe_font_paths, from index i on.
RECURSIVE DedupeLoop(_, _, _, _, _)
DedupeLoop(paths, i, seen, unique_paths, env) ==
    IF i > Len(paths) THEN unique_paths
    ELSE LET path == paths[i] IN
         IF ~_font_exists(path, env)
         THEN DedupeLoop(paths, i + 1, seen, unique_paths, env)
         ELSE IF NormPath(path) \in seen
              THEN DedupeLoop(paths, i + 1, seen, unique_paths, env)
              ELSE DedupeLoop(paths, i + 1, seen \cup {NormPath(path)},
                              Append(unique_paths, path), env)

_dedupe_font_paths(paths, env) == DedupeLoop(paths, 1, {}, <<>>, env)

\* No extra font file lies in FONT_DIR: the two bundled fonts only.
_collect_local_font_paths(env) ==
    _dedupe_font_paths(<<FONT_PATH_ZH, FONT_PATH_EN>>, env)

\* _get_font_paths: the record of the four category lists.
_get_font_paths(env) ==
    LET local_font_paths == _collect_local_font_paths(env) IN
    [ emoji   |-> _dedupe_font_paths(SYSTEM_EMOJI_FONT_PATHS \o <<FONT_PATH_EN>>
                      \o local_font_paths \o SYSTEM_LATIN_FONT_PATHS
                      \o SYSTEM_CJK_FONT_PATHS, env),
      cjk     |-> _dedupe_font_paths(<<FONT_PATH_ZH>> \o local_font_paths
                      \o SYSTEM_CJK_FONT_PATHS \o SYSTEM_LATIN_FONT_PATHS, env),
      latin   |-> _dedupe_font_paths(<<FONT_PATH_EN>> \o local_font_paths
                      \o SYSTEM_LATIN_FONT_PATHS \o SYSTEM_CJK_FONT_PATHS, env),
      generic |-> _dedupe_font_paths(local_font_paths \o SYSTEM_LATIN_FONT_PATHS
                      \o SYSTEM_CJK_FONT_PATHS \o SYSTEM_EMOJI_FONT_PATHS, env) ]

\* ImageFont.load_default(): the handle of the built-in font.
DefaultFont == "default"

\* _get_font(path, size): the handle cached under (path, size); a file that
\* exists loads, so the handle is named by its path.
_get_font(path, size) == path

\* A chooser that tests for CJK before it tests for emoji.
ChooseFontCjkFirst(cluster, size, p) ==
    IF _contains_cjk(cluster) /\ p.cjk # <<>> THEN _get_font(p.cjk[1], size)
    ELSE IF _contains_emoji(cluster) /\ p.emoji # <<>>
         THEN _get_font(p.emoji[1], size)
    ELSE IF _contains_ascii_alnum(cluster) /\ p.latin # <<>>
         THEN _get_font(p.latin[1], size)
    ELSE IF _is_fullwidth_punct_cluster(cluster) /\ p.cjk # <<>>
         THEN _get_font(p.cjk[1], size)
    ELSE IF _is_ascii_punct_cluster(cluster) /\ p.latin # <<>>
         THEN _get_font(p.latin[1], size)
    ELSE IF p.latin # <<>> THEN _get_font(p.latin[1], size)
    ELSE IF p.generic # <<>> THEN _get_font(p.generic[1], size)
    ELSE DefaultFont

\* _choose_font: first predicate that holds and whose list is non-empty.
\* p is the table _get_font_paths() returns (cached after the first call).
_choose_font(cluster, size, p) ==
    IF _contains_emoji(cluster) /\ p.emoji # <<>> THEN _get_font(p.emoji[1], size)
    ELSE IF _contains_cjk(cluster) /\ p.cjk # <<>> THEN _get_font(p.cjk[1], size)
    ELSE IF _contains_ascii_alnum(cluster) /\ p.latin # <<>>
         THEN _get_font(p.latin[1], size)
    ELSE IF _is_fullwidth_punct_cluster(cluster) /\ p.cjk # <<>>
         THEN _get_font(p.cjk[1], size)
    ELSE IF _is_ascii_punct_cluster(cluster) /\ p.latin # <<>>
         THEN _get_font(p.latin[1], size)
    ELSE IF p.latin # <<>> THEN _get_font(p.latin[1], size)
    ELSE IF p.generic # <<>> THEN _get_font(p.generic[1], size)
    ELSE DefaultFont

(***************************************************************************)
(* Font metrics (the rasterizer's answer to font.getlength): the advance   *)
(* of one code point in a font at 22 px, scaled linearly with the size.    *)
(* Marks, joiners and selectors have no advance; a font draws a code point *)
(* it has no glyph for as its .notdef box.                                 *)
(***************************************************************************)
IsZeroWidth(char) == Combining(char) # 0 \/ char \in {ZWJ, VS15, VS16}

GlyphAdvance22(font, char) ==
    IF IsZeroWidth(char) THEN 0
    ELSE CASE font \in {FONT_PATH_EN, "sysLatin"} ->
                (IF char = CpDot THEN 1 ELSE 2)
           [] font \in {FONT_PATH_ZH, "sysCJK"} ->
                (IF char = CpDot THEN 1 ELSE IF char = CpLatinA THEN 2 ELSE 4)
           [] font = "sysEmoji" ->
                (IF char = CpEmoji THEN 4 ELSE 3)
           [] OTHER -> 1

RECURSIVE GetLength(_, _, _)
GetLength(font, size, content) ==
    IF content = <<>> THEN 0
    ELSE (GlyphAdvance22(font, Head(content)) * size) \div 22
         + GetLength(font, size, Tail(content))

(***************************************************************************)
(* 4.5 Run builder and measurer.                                           *)
(***************************************************************************)
\* A comparison that finds every handle different from the current one.
FontsDifferAlways(font, current_font) == TRUE

\* `font != current_font` compares handles by identity; load_default() makes
\* a new handle on every call, so the built-in font never equals an earlier
\* handle.
FontsDiffer(font, current_font) ==
    font # current_font \/ font = DefaultFont

\* The loop of _build_text_chunks over the clusters cs, from index i on.
\* current_font = "" stands for None.
RECURSIVE ChunkLoop(_, _, _, _, _, _, _)
ChunkLoop(cs, i, chunks, current_text, current_font, size, p) ==
    IF i > Len(cs)
    THEN IF current_text # <<>>
         THEN Append(chunks, [text |-> current_text, font |-> current_font])
         ELSE chunks
    ELSE LET cluster == cs[i]
             font == _choose_font(cluster, size, p)
         IN IF current_font = "" \/ FontsDiffer(font, current_font)
            THEN ChunkLoop(cs, i + 1,
                     IF current_text # <<>>
                     THEN Append(chunks, [text |-> current_text,
                                          font |-> current_font])
                     ELSE chunks,
                     cluster, font, size, p)
            ELSE ChunkLoop(cs, i + 1, chunks, current_text \o cluster,
                           current_font, size, p)

_build_text_chunks(t, size, p) ==
    ChunkLoop(_split_text_clusters(t), 1, <<>>, <<>>, "", size, p)

\* _measure_text_mixed, the width half of its result.
_measure_text_mixed(t, size, p) ==
    LET chunks == _build_text_chunks(t, size, p) IN
    SumSeq([k \in 1..Len(chunks) |->
               GetLength(chunks[k].font, size, chunks[k].text)])

\* The default suffix "..." of _truncate_text_to_width.
Suffix == <<CpDot, CpDot, CpDot>>

\* Line 440: the text already fits.
FitsStrict(full_width, max_w) == full_width < max_w

Fits(full_width, max_w) == full_width <= max_w

\* Line 444: not even the suffix fits.
SuffixTooWideNever(suffix_width, max_w) == FALSE

SuffixTooWide(suffix_width, max_w) == suffix_width > max_w

\* Line 451: the next cluster no longer fits next to the suffix.
OverflowsIgnoringSuffix(current_width, clusterwidth, suffix_width, max_w) ==
    current_width + clusterwidth > max_w

Overflows(current_width, clusterwidth, suffix_width, max_w) ==
    current_width + clusterwidth + suffix_width > max_w

\* The loop of lines 449-454 over the clusters cs, from index i on: the kept
\* clusters.
RECURSIVE KeepLoop(_, _, _, _, _, _, _, _)
KeepLoop(cs, i, kept, current_width, suffix_width, max_w, size, p) ==
    IF i > Len(cs) THEN kept
    ELSE LET cluster == cs[i]
             clusterwidth == _measure_text_mixed(cluster, size, p)
         IN IF Overflows(current_width, clusterwidth, suffix_width, max_w)
            THEN kept
            ELSE KeepLoop(cs, i + 1, Append(kept, cluster),
                          current_width + clusterwidth, suffix_width,
                          max_w, size, p)

_truncate_text_to_width(t, size, max_w, suffix, p) ==
    IF t = <<>> THEN t
    ELSE IF Fits(_measure_text_mixed(t, size, p), max_w) THEN t
    ELSE LET suffix_width == _measure_text_mixed(suffix, size, p) IN
         IF SuffixTooWide(suffix_width, max_w) THEN <<>>
         ELSE LET kept == KeepLoop(_split_text_clusters(t), 1, <<>>, 0,
                                   suffix_width, max_w, size, p)
              IN IF kept # <<>> THEN Concat(kept) \o suffix ELSE suffix

(***************************************************************************)
(* The parts of the state a specification does not use stay at rest.       *)
(***************************************************************************)
TextIdle ==
    /\ tpc = "idle"
    /\ text = <<>>
    /\ max_width = 0
    /\ fontEnv = {}
    /\ _font_paths_cache = <<>>
    /\ clusters = <<>>
    /\ truncated = <<>>
    /\ retruncated = <<>>

StatIdle ==
    /\ spc = "idle"
    /\ level = <<>>
    /\ next_score = 0
    /\ impression = <<>>
    /\ progress = <<>>
    /\ prev_impression = <<>>
    /\ prev_progress = <<>>

DrawIdle ==
    /\ dpc = "idle"
    /\ use_local_bg = FALSE
    /\ continuous_days = <<>>
    /\ fault = "none"
    /\ bg_data = "None"
    /\ avatar_data = "None"
    /\ av_img = "none"
    /\ bonus_percent = <<>>
    /\ done_steps = {}
    /\ raised_at = ""
    /\ cache_file = "absent"
    /\ cache_before = "absent"
    /\ result = "pending"
    /\ escaped = FALSE
    /\ fetch_state = [bg |-> "idle", avatar |-> "idle"]
    /\ open_layers = {}

\* The later specifications at rest, all but the one named.
OthersIdle(active) ==
    /\ active = "path" \/
          /\ ppc = "idle"
          /\ userid = <<>>
          /\ other_userid = <<>>
          /\ date_text = <<>>
          /\ safe_tokens = <<>>
          /\ cache_path = <<>>
          /\ background_path = <<>>
          /\ other_cache_path = <<>>
    /\ active = "font" \/
          /\ fpc = "idle"
          /\ dedupe_input = <<>>
          /\ dedupe_result = <<>>
          /\ chosen_cluster = <<>>
          /\ chosen_font = ""
          /\ built_text = <<>>
          /\ built_chunks = <<>>
    /\ active = "avatars" \/
          /\ apc = "idle"
          /\ entries = <<>>
          /\ user_ids = <<>>
          /\ task = <<>>
          /\ permits = 0
          /\ requests = <<>>
          /\ avatar_map = {}
    /\ active = "badge" \/
          /\ bpc = "idle"
          /\ target_height = 0
          /\ nickname_len = 0
          /\ badge = <<>>
          /\ npc = "idle"
          /\ font_size = 0
          /\ padding_x = 0
          /\ shrink_steps = 0
          /\ measured_w = <<>>
          /\ ipc = "idle"
          /\ label_h = <<>>
          /\ info_y = <<>>
    /\ active = "mix" \/
          /\ mpc = "idle"
          /\ mix_text = <<>>
          /\ anchor = <<>>
          /\ shadow_color = <<>>
          /\ shadow_offset = <<0, 0>>
          /\ draw_calls = <<>>
    /\ active = "sign" \/
          /\ hpc = "idle"
          /\ today = 0
          /\ config_next_score = 0
          /\ sign_row = <<>>
          /\ wallet_row = <<>>
          /\ inventory = <<>>
          /\ call = <<>>
          /\ signed_days = {}
          /\ used_cards = 0
          /\ calls = <<>>

(***************************************************************************)
(* SpecText: the text pipeline on every text of at most MaxLen code        *)
(* points, every budget 0..MaxWidth and the font sets of FontEnvs.         *)
(***************************************************************************)
Texts == UNION {[1..n -> CodePoints] : n \in 0..MaxLen}

\* The machines of the model: the two bundled fonts are both present or both
\* missing (init_draw fetches them together), with or without a system emoji
\* font.
FontEnvs ==
    {bundled \cup emoji : bundled \in {{}, {FONT_PATH_ZH, FONT_PATH_EN}},
                          emoji \in {{}, {"sysEmoji"}}}

\* The size the date label is truncated at (line 1044).
DateSize == 22

TextInit ==
    /\ tpc = "input"
    /\ text \in Texts
    /\ max_width = 0
    /\ fontEnv \in FontEnvs
    /\ _font_paths_cache = _get_font_paths(fontEnv)
    /\ clusters = <<>>
    /\ truncated = <<>>
    /\ retruncated = <<>>
    /\ StatIdle
    /\ DrawIdle
    /\ OthersIdle("text")

Split ==
    /\ tpc = "input"
    /\ clusters' = _split_text_clusters(text)
    /\ tpc' = "split"
    /\ UNCHANGED <<text, max_width, fontEnv, _font_paths_cache, truncated,
                   retruncated, statVars, drawVars, extVars>>

Truncate ==
    /\ tpc = "split"
    /\ \E w \in 0..MaxWidth :
          /\ max_width' = w
          /\ truncated' = _truncate_text_to_width(text, DateSize, w, Suffix,
                                                  _font_paths_cache)
    /\ tpc' = "truncated"
    /\ UNCHANGED <<text, fontEnv, _font_paths_cache, clusters, retruncated,
                   statVars, drawVars, extVars>>

Retruncate ==
    /\ tpc = "truncated"
    /\ retruncated' =
           _truncate_text_to_width(truncated, DateSize, max_width, Suffix,
                                  _font_paths_cache)
    /\ tpc' = "retruncated"
    /\ UNCHANGED <<text, max_width, fontEnv, _font_paths_cache, clusters,
                   truncated, statVars, drawVars, extVars>>

TextNext == Split \/ Truncate \/ Retruncate

SpecText == TextInit /\ [][TextNext]_vars

(***************************************************************************)
(* Claims about the text pipeline (checked under SpecText).                *)
(***************************************************************************)
\* The 1-based index in the text at which each cluster of cs starts.
ClusterStarts(cs) ==
    {1 + SumSeq([j \in 1..(k - 1) |-> Len(cs[j])]) : k \in 1..Len(cs)}

\* The width of a text as the sum of the measured widths of its clusters.
ClusterWidthSum(t, size, p) ==
    LET cs == _split_text_clusters(t) IN
    SumSeq([k \in 1..Len(cs) |-> _measure_text_mixed(cs[k], size, p)])

SuffixWidth == _measure_text_mixed(Suffix, DateSize, _font_paths_cache)
TextWidth == _measure_text_mixed(text, DateSize, _font_paths_cache)

\* C1: concatenating the clusters of _split_text_clusters(text) in order gives
\* back the text exactly (the empty text included), and no cluster is empty.
C1_ClustersConcatToText ==
    tpc # "input" =>
        /\ Concat(clusters) = text
        /\ \A k \in 1..Len(clusters) : clusters[k] # <<>>

\* C1 witness: a text of three code points was split into two clusters, one
\* of them of more than one code point.
C1_Witness ==
    /\ tpc = "split"
    /\ Len(text) = 3
    /\ Len(clusters) = 2
    /\ \E k \in 1..2 : Len(clusters[k]) = 2

\* C2: a code point at index > 1 is appended to the open cluster exactly when
\* it is a combining mark, is U+200D, U+FE0E or U+FE0F, or follows U+200D (the
\* open cluster's last code point); in every other case it starts a cluster.
\* So a mark or selector that follows a code point never begins a cluster.
C2_JoinRule ==
    tpc # "input" =>
        \A i \in 2..Len(text) :
            (i \notin ClusterStarts(clusters)) <=>
                \/ text[i] = CpAcute
                \/ text[i] \in {8205, 65038, 65039}
                \/ text[i - 1] = 8205

\* C2 witness: an ordinary code point that follows U+200D stayed in the open
\* cluster, so the whole text of three code points is one cluster.
C2_Witness ==
    /\ tpc = "split"
    /\ Len(text) = 3
    /\ clusters = <<text>>
    /\ text[2] = ZWJ
    /\ text[3] = CpLatinA

C4_Original ==
    (tpc = "truncated" /\ max_width < SuffixWidth) => truncated = <<>>

\* C4 amended: for a max_width smaller than the width of the suffix, a text
\* wider than max_width gives the empty string, and a text that fits within
\* max_width is returned unchanged.
C4_EmptyWhenSuffixTooWide ==
    (tpc = "truncated" /\ max_width < SuffixWidth) =>
        /\ TextWidth > max_width => truncated = <<>>
        /\ TextWidth <= max_width => truncated = text

\* C4 witness: a non-empty text wider than a budget below the suffix width
\* was truncated to the empty string.
C4_Witness ==
    /\ tpc = "truncated"
    /\ max_width < SuffixWidth
    /\ text # <<>>
    /\ TextWidth > max_width
    /\ truncated = <<>>

OrDefault(x, d) == IF x = <<>> \/ x[1] = 0 THEN d ELSE x[1]

\* Decimal.quantize(Decimal("0.01"), rounding=ROUND_HALF_UP): thousandths to
\* hundredths, ties away from zero.
QuantizeHalfUp(m) ==
    IF m >= 0 THEN (m + 5) \div 10 ELSE -((5 - m) \div 10)

\* Line 1007.
ImpressionValue(imp) == QuantizeHalfUp(OrDefault(imp, 0))

\* Lines 1008-1011.
NextLevelScore(lv, ns) ==
    LET next_level_raw == OrDefault(lv, 1) * ns IN
    QuantizeHalfUp(IF next_level_raw <= 0 THEN 10 ELSE next_level_raw)

\* Line 1012 with floor division in place of the decimal division.
ProgressRatioFloorDiv(imp, lv, ns) ==
    LET impression_value == ImpressionValue(imp)
        next_level_score == NextLevelScore(lv, ns)
    IN IF next_level_score = 0
       THEN [raised |-> TRUE, num |-> 0, den |-> 0]
       ELSE [raised |-> FALSE,
             num |-> IF impression_value >= next_level_score THEN 1 ELSE 0,
             den |-> 1]

\* Line 1012: max(0, min(1, impression_value / next_level_score)) as the
\* fraction num/den, or the exception the division by a zero Decimal raises.
ProgressRatio(imp, lv, ns) ==
    LET impression_value == ImpressionValue(imp)
        next_level_score == NextLevelScore(lv, ns)
    IN IF next_level_score = 0
       THEN [raised |-> TRUE, num |-> 0, den |-> 0]
       ELSE [raised |-> FALSE,
             num |-> IF impression_value <= 0 THEN 0
                     ELSE IF impression_value >= next_level_score
                          THEN next_level_score
                          ELSE impression_value,
             den |-> next_level_score]

(***************************************************************************)
(* SpecStat: the progress computation of two renders of one user under one *)
(* configuration (level and next_score fixed, the impression changed).     *)
(***************************************************************************)
Levels == {<<>>, <<-1>>, <<0>>, <<1>>, <<2>>}
NextScores == {-10, 0, 4, 5, 10, 15}
Impressions == {<<>>} \cup {<<m>> : m \in (-MaxImpression)..MaxImpression}

StatInit ==
    /\ spc = "new"
    /\ level \in Levels
    /\ next_score \in NextScores
    /\ impression \in Impressions
    /\ progress = <<>>
    /\ prev_impression = <<>>
    /\ prev_progress = <<>>
    /\ TextIdle
    /\ DrawIdle
    /\ OthersIdle("stat")

\* Lines 1007-1012 of one render.
ComputeProgress ==
    /\ spc = "new"
    /\ progress' = <<ProgressRatio(impression, level, next_score)>>
    /\ spc' = "drawn"
    /\ UNCHANGED <<level, next_score, impression, prev_impression,
                   prev_progress, textVars, drawVars, extVars>>

\* The same user is rendered again with another impression (ImageGen.__init__
\* of the next card).
NextRender ==
    /\ spc = "drawn"
    /\ prev_progress = <<>>
    /\ \E imp \in Impressions :
          /\ impression' = imp
          /\ prev_impression' = impression
          /\ prev_progress' = progress
          /\ progress' = <<>>
    /\ spc' = "new"
    /\ UNCHANGED <<level, next_score, textVars, drawVars, extVars>>

StatNext == ComputeProgress \/ NextRender

SpecStat == StatInit /\ [][StatNext]_vars

(***************************************************************************)
(* Claims about the progress ratio (checked under SpecStat).               *)
(***************************************************************************)
\* C6 as stated: for every impression, level and next_score the division is
\* never by zero and the ratio lies in [0, 1].
C6_RatioInUnitInterval ==
    spc = "drawn" =>
        /\ ~progress[1].raised
        /\ progress[1].den > 0
        /\ 0 <= progress[1].num
        /\ progress[1].num <= progress[1].den

\* Both renders produced a ratio below 1.
BothBelowOne ==
    /\ spc = "drawn"
    /\ prev_progress # <<>>
    /\ ~prev_progress[1].raised
    /\ ~progress[1].raised
    /\ prev_progress[1].num < prev_progress[1].den
    /\ progress[1].num < progress[1].den

\* C7 as stated: for impressions a < b whose ratios are both below 1,
\* ratio(a) < ratio(b).
C7_Original ==
    (/\ BothBelowOne
     /\ prev_impression # <<>> /\ impression # <<>>
     /\ prev_impression[1] < impression[1])
        => prev_progress[1].num * progress[1].den
               < progress[1].num * prev_progress[1].den

\* C7 amended: the ratio never decreases when the impression increases, and
\* for impressions a < b whose values differ after rounding to two places,
\* with b's rounded value positive and both ratios below 1,
\* ratio(a) < ratio(b).
C7_MonotoneOnRoundedPositive ==
    (/\ spc = "drawn"
     /\ prev_progress # <<>>
     /\ ~prev_progress[1].raised /\ ~progress[1].raised
     /\ prev_impression # <<>> /\ impression # <<>>
     /\ prev_impression[1] < impression[1])
        => /\ prev_progress[1].num * progress[1].den
                  <= progress[1].num * prev_progress[1].den
           /\ (/\ BothBelowOne
               /\ impression[1] >= 5
               /\ (prev_impression[1] + 5) \div 10 < (impression[1] + 5) \div 10)
                  => prev_progress[1].num * progress[1].den
                         < progress[1].num * prev_progress[1].den

\* C7 witness: two renders with positive impressions a < b, both ratios
\* strictly between 0 and 1 and the second one larger.
C7_Witness ==
    /\ BothBelowOne
    /\ prev_impression # <<>> /\ impression # <<>>
    /\ prev_impression[1] < impression[1]
    /\ 0 < prev_progress[1].num
    /\ prev_progress[1].num < progress[1].num

(***************************************************************************)
(* Spec: one execution of ImageGen._draw (lines 737-746): it awaits        *)
(* _prepare_resources, then runs _draw_sync (lines 748-1122) in the        *)
(* executor inside try/except.  The steps of _draw_sync are taken in       *)
(* program order; a step raises when its input makes it raise or when the  *)
(* environment fails at it (`fault`: a library or file-system error).      *)
(***************************************************************************)
\* _get_bg (lines 477-505): what the remote gallery fetch ends with.
RemoteBgOutcomes ==
    {"api_non200", "api_error", "no_url", "img_non200", "ok_image", "ok_garbage"}

\* _get_bg_local (lines 458-475): what the local gallery pick ends with.
LocalBgOutcomes ==
    {"no_files", "read_error", "save_error", "ok_image", "ok_garbage"}

\* The value _get_bg / _get_bg_local returns: every failure is caught and
\* gives None.
BgBytes(outcome) ==
    CASE outcome = "ok_image"   -> "image"
      [] outcome = "ok_garbage" -> "garbage"
      [] OTHER                  -> "None"

\* _get_avatar (lines 507-515): what the avatar request ends with.
AvatarOutcomes ==
    {"ok_image", "ok_garbage", "ok_empty", "non200", "timeout", "error"}

\* The value _get_avatar returns: the body of a 200 response, else None.
_get_avatar(outcome) ==
    CASE outcome = "ok_image"   -> "image"
      [] outcome = "ok_garbage" -> "garbage"
      [] outcome = "ok_empty"   -> "empty"
      [] OTHER                  -> "None"

\* Python truthiness of optional bytes.
Truthy(data) == data \notin {"None", "empty"}

\* Lines 936-944 when the decoding error is not caught.
AvatarLayerUncaught(data) ==
    IF Truthy(data)
    THEN (IF data = "image" THEN "avatar" ELSE "raise")
    ELSE "placeholder"

\* Lines 936-944: the avatar layer, or the solid placeholder when the bytes
\* are absent or Image.open raises on them (caught, logged as a warning).
AvatarLayer(data) ==
    IF Truthy(data) /\ data = "image" THEN "avatar" ELSE "placeholder"

\* Lines 589-595 with the first threshold off by one.
StreakBonusOffByOne(cd) ==
    LET streak == OrDefault(cd, 0) IN
    IF streak > 7 THEN 15 ELSE IF streak >= 3 THEN 10 ELSE 0

\* _get_streak_bonus_percent (lines 589-595).
_get_streak_bonus_percent(cd) ==
    LET streak == OrDefault(cd, 0) IN
    IF streak >= 7 THEN 15 ELSE IF streak >= 3 THEN 10 ELSE 0

\* The steps of _draw_sync at which the environment can fail.
Faults == {"none", "layout", "texts", "info", "encode", "open_cache",
           "write_cache"}

\* All the steps of _draw_sync, in program order.
SyncSteps == <<"check_bg", "decode_bg", "layout", "avatar", "texts", "progress",
               "info", "encode", "open_cache", "write_cache">>

AllSyncSteps == {SyncSteps[i] : i \in 1..Len(SyncSteps)}

Init ==
    /\ dpc = "prepare_bg"
    /\ use_local_bg \in BOOLEAN
    /\ continuous_days \in {<<>>} \cup {<<n>> : n \in (-1)..MaxStreak}
    /\ fault \in Faults
    /\ bg_data = "None"
    /\ avatar_data = "None"
    /\ av_img = "none"
    /\ bonus_percent = <<>>
    /\ done_steps = {}
    /\ raised_at = ""
    /\ cache_file \in {"absent", "earlier"}
    /\ cache_before = cache_file
    /\ result = "pending"
    /\ escaped = FALSE
    /\ fetch_state = [bg |-> "idle", avatar |-> "idle"]
    /\ open_layers = {}
    /\ spc = "idle"
    /\ level = <<1>>
    /\ next_score \in {4, 25000}
    /\ impression = <<12500>>
    /\ progress = <<>>
    /\ prev_impression = <<>>
    /\ prev_progress = <<>>
    /\ TextIdle
    /\ OthersIdle("draw")

\* What a step leaves alone besides the variables it names.
DrawInputs == <<use_local_bg, continuous_days, fault, cache_before, level,
                next_score, impression, spc, prev_impression, prev_progress,
                textVars, extVars>>

\* The same and the state of the fetches, which _draw_sync does not touch.
SyncInputs == <<DrawInputs, fetch_state>>

\* The step raised: control goes to the finally block of _draw_sync.
RaiseAt(step) ==
    /\ raised_at' = step
    /\ dpc' = "finally"
    /\ UNCHANGED done_steps

\* The step completed: control goes to the next statement.
Complete(step, next) ==
    /\ done_steps' = done_steps \cup {step}
    /\ dpc' = next
    /\ UNCHANGED raised_at

\* Lines 208-211: self._get_bg_local() or self._get_bg(session) is started
\* and _prepare_resources waits for it.
PrepareBackground ==
    /\ dpc = "prepare_bg"
    /\ fetch_state' = [fetch_state EXCEPT !.bg = "in_flight"]
    /\ dpc' = "await_bg"
    /\ UNCHANGED <<bg_data, avatar_data, av_img, bonus_percent, done_steps,
                   raised_at, cache_file, result, escaped, progress,
                   open_layers, DrawInputs>>

\* Lines 208-211: the await returns and self.bg_data is assigned.
BackgroundFetched ==
    /\ dpc = "await_bg"
    /\ \E outcome \in IF use_local_bg THEN LocalBgOutcomes ELSE RemoteBgOutcomes :
          bg_data' = BgBytes(outcome)
    /\ fetch_state' = [fetch_state EXCEPT !.bg = "done"]
    /\ dpc' = "prepare_avatar"
    /\ UNCHANGED <<avatar_data, av_img, bonus_percent, done_steps, raised_at,
                   cache_file, result, escaped, progress, open_layers,
                   DrawInputs>>

\* An avatar fetch that is started and not waited for.
PrepareAvatarNotAwaited ==
    /\ dpc = "prepare_avatar"
    /\ fetch_state' = [fetch_state EXCEPT !.avatar = "in_flight"]
    /\ dpc' = "check_bg"
    /\ UNCHANGED <<bg_data, avatar_data, av_img, bonus_percent, done_steps,
                   raised_at, cache_file, result, escaped, progress,
                   open_layers, DrawInputs>>

\* Line 212: self._get_avatar(session) is started and _prepare_resources
\* waits for it.
PrepareAvatar ==
    /\ dpc = "prepare_avatar"
    /\ fetch_state' = [fetch_state EXCEPT !.avatar = "in_flight"]
    /\ dpc' = "await_avatar"
    /\ UNCHANGED <<bg_data, avatar_data, av_img, bonus_percent, done_steps,
                   raised_at, cache_file, result, escaped, progress,
                   open_layers, DrawInputs>>

\* Line 212: the await returns and self.avatar_data is assigned; line 738
\* then goes on to run _draw_sync in the executor (lines 739-741).
AvatarFetched ==
    /\ dpc = "await_avatar"
    /\ \E outcome \in AvatarOutcomes : avatar_data' = _get_avatar(outcome)
    /\ fetch_state' = [fetch_state EXCEPT !.avatar = "done"]
    /\ dpc' = "check_bg"
    /\ UNCHANGED <<bg_data, av_img, bonus_percent, done_steps, raised_at,
                   cache_file, result, escaped, progress, open_layers,
                   DrawInputs>>

\* Lines 755-756: raise when there are no background bytes.  The raise is
\* before the try, so the finally block does not run.
CheckBackground ==
    /\ dpc = "check_bg"
    /\ IF ~Truthy(bg_data)
       THEN /\ raised_at' = "check_bg"
            /\ dpc' = "except"
            /\ UNCHANGED done_steps
       ELSE Complete("check_bg", "decode_bg")
    /\ UNCHANGED <<bg_data, avatar_data, av_img, bonus_percent, cache_file,
                   result, escaped, progress, open_layers,
                   SyncInputs>>

\* The images a step of _draw_sync creates and does not close itself, when
\* it completes and when it raises.  An image is named by the variable it is
\* bound to and, where the variable is bound again later, the line.
\*   761      Image.open(..) and its .convert("RGBA"), bound to background;
\*   771-773  main_bg, canvas (blur_bg is closed at 774);
\*   796-797  card_img is bound to the converted copy of _round_corner, which
\*            is closed at 799; the resized image of 796 is not;
\*   897-905  shadow_alpha is bound three times and closed once;
\*   920-927  border_alpha is bound three times and closed once;
\*   939-954  av_img is bound to the opened or the placeholder image, to the
\*            resized one and to the rounded one, which alone is closed;
\*   1105     final_img.
\* The layout raises where it measures the nickname (line 844), the encoding
\* where it saves final_img (line 1106).
LayersLeftOpen(step, raised, layer) ==
    CASE step = "decode_bg" ->
            (IF raised THEN {} ELSE {"Image.open@761", "background"})
      [] step = "layout" ->
            (IF raised THEN {"main_bg", "canvas", "card_img@796"}
             ELSE {"main_bg", "canvas", "card_img@796", "shadow_alpha@897",
                   "shadow_alpha@899", "border_alpha@920", "border_alpha@921"})
      [] step = "avatar" ->
            (IF layer = "avatar"
             THEN {"Image.open@939", "av_img@939", "av_img@951"}
             ELSE {"av_img@944", "av_img@951"})
      [] step = "encode" -> {"final_img"}
      [] OTHER -> {}

\* Line 761: Image.open(...).convert("RGBA") raises on undecodable bytes.
DecodeBackground ==
    /\ dpc = "decode_bg"
    /\ IF bg_data # "image"
       THEN RaiseAt("decode_bg")
       ELSE Complete("decode_bg", "layout")
    /\ open_layers' = open_layers
            \cup LayersLeftOpen("decode_bg", bg_data # "image", "")
    /\ UNCHANGED <<bg_data, avatar_data, av_img, bonus_percent, cache_file,
                   result, escaped, progress, SyncInputs>>

\* Lines 763-934: resize, blur, card panels, badge geometry and layers.
Layout ==
    /\ dpc = "layout"
    /\ IF fault = "layout"
       THEN RaiseAt("layout")
       ELSE Complete("layout", "avatar")
    /\ open_layers' = open_layers
            \cup LayersLeftOpen("layout", fault = "layout", "")
    /\ UNCHANGED <<bg_data, avatar_data, av_img, bonus_percent, cache_file,
                   result, escaped, progress, SyncInputs>>

\* Lines 936-954: decode the avatar or substitute the placeholder, paste it.
PasteAvatar ==
    /\ dpc = "avatar"
    /\ LET layer == AvatarLayer(avatar_data) IN
       IF layer = "raise"
       THEN RaiseAt("avatar") /\ UNCHANGED <<av_img, open_layers>>
       ELSE /\ Complete("avatar", "texts")
            /\ av_img' = layer
            /\ open_layers' = open_layers
                    \cup LayersLeftOpen("avatar", FALSE, layer)
    /\ UNCHANGED <<bg_data, avatar_data, bonus_percent, cache_file, result,
                   escaped, progress, SyncInputs>>

\* Lines 956-1005: nickname, greeting, coin, attitude and total lines.
DrawTexts ==
    /\ dpc = "texts"
    /\ IF fault = "texts"
       THEN RaiseAt("texts")
       ELSE Complete("texts", "progress")
    /\ UNCHANGED <<bg_data, avatar_data, av_img, bonus_percent, cache_file,
                   result, escaped, progress, open_layers,
                   SyncInputs>>

\* Lines 1007-1012: the progress ratio; the division raises on a zero
\* threshold.
DrawProgress ==
    /\ dpc = "progress"
    /\ LET r == ProgressRatio(impression, level, next_score) IN
       /\ progress' = <<r>>
       /\ IF r.raised
          THEN RaiseAt("progress")
          ELSE Complete("progress", "info")
    /\ UNCHANGED <<bg_data, avatar_data, av_img, bonus_percent, cache_file,
                   result, escaped, open_layers,
                   SyncInputs>>

\* Lines 1014-1100: statistics, progress bar, info line with the streak
\* bonus, footer.
DrawInfo ==
    /\ dpc = "info"
    /\ IF fault = "info"
       THEN RaiseAt("info") /\ UNCHANGED bonus_percent
       ELSE /\ Complete("info", "encode")
            /\ bonus_percent' = <<_get_streak_bonus_percent(continuous_days)>>
    /\ UNCHANGED <<bg_data, avatar_data, av_img, cache_file, result, escaped,
                   progress, open_layers,
                   SyncInputs>>

\* Lines 1102-1107: convert to RGB and encode as PNG.
Encode ==
    /\ dpc = "encode"
    /\ IF fault = "encode"
       THEN RaiseAt("encode")
       ELSE Complete("encode", "open_cache")
    /\ open_layers' = open_layers
            \cup LayersLeftOpen("encode", fault = "encode", "")
    /\ UNCHANGED <<bg_data, avatar_data, av_img, bonus_percent, cache_file,
                   result, escaped, progress, SyncInputs>>

\* Line 1109: open(image_path, "wb") creates or truncates the cache file.
OpenCache ==
    /\ dpc = "open_cache"
    /\ IF fault = "open_cache"
       THEN RaiseAt("open_cache") /\ UNCHANGED cache_file
       ELSE Complete("open_cache", "write_cache") /\ cache_file' = "truncated"
    /\ UNCHANGED <<bg_data, avatar_data, av_img, bonus_percent, result, escaped,
                   progress, open_layers,
                   SyncInputs>>

\* Line 1110: f.write(img_data); a failed write leaves the truncated file.
WriteCache ==
    /\ dpc = "write_cache"
    /\ IF fault = "write_cache"
       THEN RaiseAt("write_cache") /\ UNCHANGED cache_file
       ELSE Complete("write_cache", "finally") /\ cache_file' = "png"
    /\ UNCHANGED <<bg_data, avatar_data, av_img, bonus_percent, result, escaped,
                   progress, open_layers,
                   SyncInputs>>

\* Lines 1112-1122: the finally block closes background, main_bg, canvas and
\* final_img where they are set, then _draw_sync returns img_data or the
\* exception propagates to _draw.
Finally ==
    /\ dpc = "finally"
    /\ open_layers' = open_layers
            \ {"background", "main_bg", "canvas", "final_img"}
    /\ dpc' = IF raised_at = "" THEN "return" ELSE "except"
    /\ UNCHANGED <<bg_data, avatar_data, av_img, bonus_percent, done_steps,
                   raised_at, cache_file, result, escaped, progress, SyncInputs>>

\* Line 741: _draw returns the bytes of _draw_sync.
ReturnBytes ==
    /\ dpc = "return"
    /\ result' = "png"
    /\ dpc' = "returned"
    /\ UNCHANGED <<bg_data, avatar_data, av_img, bonus_percent, done_steps,
                   raised_at, cache_file, escaped, progress, open_layers,
                   SyncInputs>>

\* What lines 742-746 make of an exception of _draw_sync, were it re-raised.
OnExceptionReraise == [result |-> "pending", escaped |-> TRUE]

\* Lines 742-746: except Exception: log, return None.
OnException == [result |-> "None", escaped |-> FALSE]

ExceptReturnNone ==
    /\ dpc = "except"
    /\ result' = OnException.result
    /\ escaped' = OnException.escaped
    /\ dpc' = "returned"
    /\ UNCHANGED <<bg_data, avatar_data, av_img, bonus_percent, done_steps,
                   raised_at, cache_file, progress, open_layers,
                   SyncInputs>>

Next ==
    \/ PrepareBackground
    \/ BackgroundFetched
    \/ PrepareAvatar
    \/ AvatarFetched
    \/ CheckBackground
    \/ DecodeBackground
    \/ Layout
    \/ PasteAvatar
    \/ DrawTexts
    \/ DrawProgress
    \/ DrawInfo
    \/ Encode
    \/ OpenCache
    \/ WriteCache
    \/ Finally
    \/ ReturnBytes
    \/ ExceptReturnNone

Spec == Init /\ [][Next]_vars

(***************************************************************************)
(* Claims about ImageGen._draw (checked under Spec).                       *)
(***************************************************************************)
\* C8: _get_streak_bonus_percent gives 15 for a streak of 7 or more, 10 for a
\* streak of 3 to 6, and 0 below 3 (0 and a missing streak included); nothing
\* else.
C8_StreakBonusTable ==
    bonus_percent # <<>> =>
        LET b == bonus_percent[1] IN
        /\ b \in {0, 10, 15}
        /\ (continuous_days # <<>> /\ continuous_days[1] >= 7) => b = 15
        /\ (continuous_days # <<>> /\ continuous_days[1] \in 3..6) => b = 10
        /\ (continuous_days = <<>> \/ continuous_days[1] < 3) => b = 0

\* C8 witness: the card of a user with a streak of exactly 7 days got 15.
C8_Witness ==
    /\ continuous_days = <<7>>
    /\ bonus_percent = <<15>>
    /\ result = "png"

\* _draw never raises, returns None when the background is absent or a step
\* of _draw_sync raised, and returns bytes only when every step completed.
DrawNeverRaises ==
    /\ ~escaped
    /\ dpc = "returned" =>
          /\ result \in {"png", "None"}
          /\ ~Truthy(bg_data) => result = "None"
          /\ raised_at # "" => result = "None"
          /\ result = "png" => (done_steps = AllSyncSteps /\ raised_at = "")

\* C9 as stated: DrawNeverRaises, and on the failure path the cache file is
\* not written.
C9_Original ==
    /\ DrawNeverRaises
    /\ (dpc = "returned" /\ result = "None") => cache_file = cache_before

\* C9 amended: DrawNeverRaises, and on the failure path the cache file is
\* untouched unless the step that raised is the write of the cache file
\* itself (line 1110, after line 1109 opened it for writing); the cache file
\* holds the card only when _draw returned its bytes.
C9_NoRaiseNoCacheBeforeWrite ==
    /\ DrawNeverRaises
    /\ (dpc = "returned" /\ result = "None" /\ raised_at # "write_cache")
           => cache_file = cache_before
    /\ (dpc = "returned" /\ result = "None") => cache_file # "png"
    /\ (dpc = "returned" /\ result = "png") => cache_file = "png"

\* C9 witness: background bytes were fetched but Image.open raised on them
\* inside _draw_sync; _draw returned None and the cache file is as before.
C9_Witness ==
    /\ dpc = "returned"
    /\ raised_at = "decode_bg"
    /\ bg_data = "garbage"
    /\ result = "None"
    /\ ~escaped
    /\ cache_file = cache_before

\* C10: an avatar that is missing (fetch failed, timed out, non-200, empty)
\* or undecodable never makes a step raise: the placeholder is pasted, and
\* with a decodable background and no other step raising _draw_sync returns
\* the PNG bytes.
C10_AvatarFailureDegrades ==
    /\ raised_at # "avatar"
    /\ ("avatar" \in done_steps /\ avatar_data # "image") => av_img = "placeholder"
    /\ ("avatar" \in done_steps /\ avatar_data = "image") => av_img = "avatar"
    /\ (dpc = "returned" /\ bg_data = "image" /\ raised_at = "")
           => result = "png"

\* C10 witness: the avatar bytes could not be decoded, the placeholder was
\* pasted and the card was returned.
C10_Witness ==
    /\ dpc = "returned"
    /\ avatar_data = "garbage"
    /\ av_img = "placeholder"
    /\ result = "png"

(***************************************************************************)
(* File names of the image directory (lines 63-89).  A string is a         *)
(* sequence of one-character strings; an optional string is <<>> (None) or *)
(* <<s>>.  A path builder's outcome is a record: raised, or the path.      *)
(***************************************************************************)
MaxIdLen == 3       \* longest user id tried, in characters
MaxOtherLen == 1    \* longest id of the other user tried, in characters

\* Line 23, made absolute as line 73 does: the directory of the images.
IMAGE_DIR == <<"/", "p", "/", "i">>

\* Line 67: the characters of the class [0-9A-Za-z_-].
TokenChars ==
    {"0", "1", "2", "3", "4", "5", "6", "7", "8", "9",
     "a", "b", "c", "d", "e", "f", "g", "h", "i", "j", "k", "l", "m",
     "n", "o", "p", "q", "r", "s", "t", "u", "v", "w", "x", "y", "z",
     "A", "B", "C", "D", "E", "F", "G", "H", "I", "J", "K", "L", "M",
     "N", "O", "P", "Q", "R", "S", "T", "U", "V", "W", "X", "Y", "Z",
     "_", "-"}

\* A sanitizer that returns the cleaned text even when nothing is left of it.
SanitizeWithoutDefault(value, default) ==
    LET RECURSIVE lstrip(_, _), rstrip(_, _)
        lstrip(s, drop) ==
            IF s # <<>> /\ Head(s) \in drop THEN lstrip(Tail(s), drop) ELSE s
        rstrip(s, drop) ==
            IF s # <<>> /\ s[Len(s)] \in drop
            THEN rstrip(SubSeq(s, 1, Len(s) - 1), drop) ELSE s
        txt == rstrip(lstrip(IF value = <<>> THEN <<>> ELSE value[1],
                              {" ", "\t", "\n"}), {" ", "\t", "\n"})
    IN  rstrip(lstrip([i \in 1..Len(txt) |->
                             IF txt[i] \in TokenChars THEN txt[i] ELSE "_"],
                      {"_"}), {"_"})

\* Lines 63-69: str(value or "").strip(); every character outside
\* [0-9A-Za-z_-] becomes "_"; "_" is stripped from both ends; an empty text
\* or an empty result gives the default.
_sanitize_path_token(value, default) ==
    LET RECURSIVE lstrip(_, _), rstrip(_, _)
        lstrip(s, drop) ==
            IF s # <<>> /\ Head(s) \in drop THEN lstrip(Tail(s), drop) ELSE s
        rstrip(s, drop) ==
            IF s # <<>> /\ s[Len(s)] \in drop
            THEN rstrip(SubSeq(s, 1, Len(s) - 1), drop) ELSE s
        whitespace == {" ", "\t", "\n"}
        txt == rstrip(lstrip(IF value = <<>> THEN <<>> ELSE value[1],
                              whitespace), whitespace)
        cleaned == rstrip(lstrip([i \in 1..Len(txt) |->
                                     IF txt[i] \in TokenChars THEN txt[i]
                                                            ELSE "_"],
                                 {"_"}), {"_"})
    IN  IF txt = <<>> THEN default
        ELSE IF cleaned = <<>> THEN default ELSE cleaned

\* Lines 72-77: os.path.abspath(os.path.join(IMAGE_DIR, filename)), and the
\* ValueError when the result does not start with abspath(IMAGE_DIR) + os.sep.
\* abspath splits at the separators, drops "" and ".", and lets ".." remove
\* the component before it; join starts over at an absolute filename.
_join_image_path(filename) ==
    LET sep == "/"
        RECURSIVE split(_, _, _), norm(_, _, _), glue(_)
        split(s, i, cur) ==
            IF i > Len(s) THEN <<cur>>
            ELSE IF s[i] = sep THEN <<cur>> \o split(s, i + 1, <<>>)
            ELSE split(s, i + 1, Append(cur, s[i]))
        norm(cs, i, out) ==
            IF i > Len(cs) THEN out
            ELSE IF cs[i] \in {<<>>, <<".">>} THEN norm(cs, i + 1, out)
            ELSE IF cs[i] = <<".", ".">>
                 THEN norm(cs, i + 1, IF out = <<>> THEN out
                                      ELSE SubSeq(out, 1, Len(out) - 1))
            ELSE norm(cs, i + 1, Append(out, cs[i]))
        glue(cs) ==
            IF cs = <<>> THEN <<>> ELSE <<sep>> \o Head(cs) \o glue(Tail(cs))
        abspath(p) ==
            LET n == norm(split(p, 1, <<>>), 1, <<>>)
            IN  IF n = <<>> THEN <<sep>> ELSE glue(n)
        joined == IF filename # <<>> /\ filename[1] = sep
                  THEN filename
                  ELSE IMAGE_DIR \o <<sep>> \o filename
        image_dir_abs == abspath(IMAGE_DIR)
        path == abspath(joined)
        prefix == image_dir_abs \o <<sep>>
    IN  IF Len(path) >= Len(prefix) /\ SubSeq(path, 1, Len(prefix)) = prefix
        THEN [raised |-> FALSE, path |-> path]
        ELSE [raised |-> TRUE, path |-> <<>>]

\* Lines 80-83: f"background-{safe_uid}-{safe_date}.png".
_build_background_path(uid, date) ==
    _join_image_path(<<"b", "a", "c", "k", "g", "r", "o", "u", "n", "d", "-">>
                     \o _sanitize_path_token(uid, <<"u", "n", "k", "n", "o", "w", "n">>)
                     \o <<"-">>
                     \o _sanitize_path_token(date, <<"u", "n", "k", "n", "o", "w", "n">>)
                     \o <<".", "p", "n", "g">>)

\* A cache path that leaves the user id out of the file name.
SignCachePathOfDateOnly(uid, date) ==
    _join_image_path(_sanitize_path_token(date, <<"u", "n", "k", "n", "o", "w", "n">>)
                     \o <<".", "p", "n", "g">>)

\* Lines 86-89: f"{safe_uid}-{safe_date}.png".
_build_sign_cache_path(uid, date) ==
    _join_image_path(_sanitize_path_token(uid, <<"u", "n", "k", "n", "o", "w", "n">>)
                     \o <<"-">>
                     \o _sanitize_path_token(date, <<"u", "n", "k", "n", "o", "w", "n">>)
                     \o <<".", "p", "n", "g">>)

(***************************************************************************)
(* SpecPath: the builders on every user id of at most MaxIdLen characters  *)
(* over one character of each kind the sanitizer and abspath tell apart.   *)
(***************************************************************************)
PathInit ==
    /\ ppc = "input"
    /\ userid \in {<<>>} \cup
          {<<s>> : s \in UNION {[1..n -> {"1", "-", "_", "/", ".", " "}] :
                                   n \in 0..MaxIdLen}}
    /\ other_userid \in {<<>>} \cup
          {<<s>> : s \in UNION {[1..n -> {"1", "-", "_", "/", ".", " "}] :
                                   n \in 0..MaxOtherLen}}
    /\ date_text \in {<<>>, <<<<"1", "-", "2">>>>, <<<<".", ".", "/">>>>}
    /\ safe_tokens = <<>>
    /\ cache_path = <<>>
    /\ background_path = <<>>
    /\ other_cache_path = <<>>
    /\ TextIdle
    /\ StatIdle
    /\ DrawIdle
    /\ OthersIdle("path")

\* Lines 727 and 1102: the cache path of this user's card.
BuildSignCachePath ==
    /\ ppc = "input"
    /\ safe_tokens' =
           <<_sanitize_path_token(userid, <<"u", "n", "k", "n", "o", "w", "n">>),
             _sanitize_path_token(date_text, <<"u", "n", "k", "n", "o", "w", "n">>)>>
    /\ cache_path' = _build_sign_cache_path(userid, date_text)
    /\ ppc' = "cache"
    /\ UNCHANGED <<userid, other_userid, date_text, background_path,
                   other_cache_path, textVars, statVars, drawVars,
                   fontVars, poolVars, badgeVars, layoutVars, signVars>>

\* Lines 159, 460 and 479: the path of this user's background of the day.
BuildBackgroundPath ==
    /\ ppc = "cache"
    /\ background_path' = _build_background_path(userid, date_text)
    /\ ppc' = "background"
    /\ UNCHANGED <<userid, other_userid, date_text, safe_tokens, cache_path,
                   other_cache_path, textVars, statVars, drawVars,
                   fontVars, poolVars, badgeVars, layoutVars, signVars>>

\* Lines 727 and 1102 in the render of another user on the same day.
BuildOtherCachePath ==
    /\ ppc = "background"
    /\ other_cache_path' = _build_sign_cache_path(other_userid, date_text)
    /\ ppc' = "done"
    /\ UNCHANGED <<userid, other_userid, date_text, safe_tokens, cache_path,
                   background_path, textVars, statVars, drawVars,
                   fontVars, poolVars, badgeVars, layoutVars, signVars>>

PathNext == BuildSignCachePath \/ BuildBackgroundPath \/ BuildOtherCachePath

SpecPath == PathInit /\ [][PathNext]_vars

\* C11: a path builder returns a path strictly inside IMAGE_DIR (it starts
\* with IMAGE_DIR and a separator, names something below it and has no ".."
\* component) or raises, and the tokens it embeds are non-empty and made of
\* the characters 0-9, A-Z, a-z, "_" and "-" only.
C11_PathsInsideImageDir ==
    /\ \A r \in (IF ppc \in {"cache", "background", "done"}
                 THEN {cache_path} ELSE {}) \cup
                (IF ppc \in {"background", "done"}
                 THEN {background_path} ELSE {}) :
          \/ r.raised
          \/ /\ Len(r.path) > Len(IMAGE_DIR) + 1
             /\ SubSeq(r.path, 1, Len(IMAGE_DIR) + 1) = IMAGE_DIR \o <<"/">>
             /\ \A i \in 1..(Len(r.path) - 2) :
                   ~(/\ r.path[i] = "/"
                     /\ r.path[i + 1] = "."
                     /\ r.path[i + 2] = "."
                     /\ (i + 3 > Len(r.path) \/ r.path[i + 3] = "/"))
    /\ \A k \in 1..Len(safe_tokens) :
          /\ safe_tokens[k] # <<>>
          /\ \A i \in 1..Len(safe_tokens[k]) :
                safe_tokens[k][i] \in TokenChars

\* A user id and a date that are both "../" got a path in the directory.
C11_Witness ==
    /\ ppc = "done"
    /\ userid = <<<<".", ".", "/">>>>
    /\ date_text = <<<<".", ".", "/">>>>
    /\ ~cache_path.raised
    /\ ~background_path.raised
    /\ safe_tokens = <<<<"u", "n", "k", "n", "o", "w", "n">>,
                       <<"u", "n", "k", "n", "o", "w", "n">>>>

\* C18 as stated: two distinct user ids of the same date never get the same
\* cache path.
C18_Original ==
    (ppc = "done" /\ userid # other_userid)
        => cache_path.path # other_cache_path.path

\* C18: two distinct user ids that the sanitizer leaves as they are (strings
\* of the characters 0-9, A-Z, a-z, "_" and "-" that neither start nor end
\* with "_", such as numeric account ids) get distinct cache paths for the
\* same date.
C18_DistinctCleanIds ==
    LET clean(v) ==
            /\ v # <<>>
            /\ v[1] # <<>>
            /\ \A i \in 1..Len(v[1]) : v[1][i] \in TokenChars
            /\ v[1][1] # "_"
            /\ v[1][Len(v[1])] # "_"
    IN  (/\ ppc = "done"
         /\ clean(userid)
         /\ clean(other_userid)
         /\ userid # other_userid)
            => /\ ~cache_path.raised
               /\ ~other_cache_path.raised
               /\ cache_path.path # other_cache_path.path

\* The users "1-1" and "1" of the day "1-2" have their own cache files.
C18_Witness ==
    /\ ppc = "done"
    /\ userid = <<<<"1", "-", "1">>>>
    /\ other_userid = <<<<"1">>>>
    /\ date_text = <<<<"1", "-", "2">>>>
    /\ cache_path.path # other_cache_path.path

(***************************************************************************)
(* SpecFont: the font table of every machine (any subset of the font       *)
(* files), _dedupe_font_paths on every list of at most MaxPaths candidate  *)
(* paths, and _choose_font on every cluster of at most MaxClusterLen code  *)
(* points.                                                                 *)
(***************************************************************************)
MaxPaths == 3       \* longest list of candidate paths tried
MaxClusterLen == 3  \* longest cluster tried, in code points

\* Lines 199-204: no table is cached before the first call.
FontInit ==
    /\ fpc = "init"
    /\ fontEnv \in SUBSET FontFiles
    /\ _font_paths_cache = <<>>
    /\ dedupe_input = <<>>
    /\ dedupe_result = <<>>
    /\ chosen_cluster = <<>>
    /\ chosen_font = ""
    /\ built_text = <<>>
    /\ built_chunks = <<>>
    /\ tpc = "idle"
    /\ text = <<>>
    /\ max_width = 0
    /\ clusters = <<>>
    /\ truncated = <<>>
    /\ retruncated = <<>>
    /\ StatIdle
    /\ DrawIdle
    /\ OthersIdle("font")

\* Lines 348-381: the first call computes and caches the four lists.
GetFontPaths ==
    /\ fpc = "init"
    /\ _font_paths_cache' = _get_font_paths(fontEnv)
    /\ fpc' = "table"
    /\ UNCHANGED <<dedupe_input, dedupe_result, chosen_cluster, chosen_font,
                   built_text, built_chunks, tpc, text, max_width, fontEnv, clusters, truncated,
                   retruncated, statVars, drawVars, pathVars, poolVars,
                   badgeVars, layoutVars, signVars>>

\* Lines 289-300 on a list of candidates: a file, its relative form, another
\* file, its relative form, and the empty path.
DedupeFontPaths ==
    /\ fpc = "table"
    /\ \E ps \in UNION {[1..n -> {FONT_PATH_ZH, "./zh_font", "sysLatin",
                                  "./sysLatin", ""}] : n \in 0..MaxPaths} :
          /\ dedupe_input' = ps
          /\ dedupe_result' = _dedupe_font_paths(ps, fontEnv)
    /\ fpc' = "deduped"
    /\ UNCHANGED <<chosen_cluster, chosen_font, built_text, built_chunks,
                   textVars, statVars, drawVars,
                   pathVars, poolVars, badgeVars, layoutVars, signVars>>

\* Lines 383-399 on a cluster of the segmenter.
ChooseFont ==
    /\ fpc = "table"
    /\ \E c \in UNION {[1..n -> {CpLatinA, CpDot, CpCjk, CpEmoji, CpAcute, ZWJ,
                                 CpFwComma}] : n \in 1..MaxClusterLen} :
          /\ _split_text_clusters(c) = <<c>>
          /\ chosen_cluster' = c
          /\ chosen_font' = _choose_font(c, DateSize, _font_paths_cache)
    /\ fpc' = "chosen"
    /\ UNCHANGED <<dedupe_input, dedupe_result, built_text, built_chunks,
                   textVars, statVars, drawVars,
                   pathVars, poolVars, badgeVars, layoutVars, signVars>>

\* Lines 401-419 on a text of up to MaxClusterLen code points.
BuildTextChunks ==
    /\ fpc = "table"
    /\ \E t \in UNION {[1..n -> {CpLatinA, CpDot, CpCjk, CpEmoji, CpAcute, ZWJ,
                                 CpFwComma}] : n \in 0..MaxClusterLen} :
          /\ built_text' = t
          /\ built_chunks' = _build_text_chunks(t, DateSize, _font_paths_cache)
    /\ fpc' = "built"
    /\ UNCHANGED <<dedupe_input, dedupe_result, chosen_cluster, chosen_font,
                   textVars, statVars, drawVars, pathVars, poolVars,
                   badgeVars, layoutVars, signVars>>

FontNext == GetFontPaths \/ DedupeFontPaths \/ ChooseFont \/ BuildTextChunks

SpecFont == FontInit /\ [][FontNext]_vars

\* C12: _dedupe_font_paths returns the existing candidates whose normalized
\* path did not occur earlier in the input, in input order: no two entries of
\* the result have the same normalized path, every entry is an existing file,
\* and the k-th entry is the k-th first occurrence of the input.  Each of the
\* four category lists has no repeated normalized path and no missing file.
C12_DedupedExistingInOrder ==
    LET exists(x) == x # "" /\ NormPath(x) \in fontEnv
        distinct(l) == \A i, j \in 1..Len(l) :
                          i # j => NormPath(l[i]) # NormPath(l[j])
        firsts == {i \in 1..Len(dedupe_input) :
                      /\ exists(dedupe_input[i])
                      /\ \A j \in 1..(i - 1) :
                            NormPath(dedupe_input[j]) # NormPath(dedupe_input[i])}
    IN  /\ fpc = "deduped" =>
              /\ distinct(dedupe_result)
              /\ \A k \in 1..Len(dedupe_result) : exists(dedupe_result[k])
              /\ Len(dedupe_result) = Cardinality(firsts)
              /\ \A i \in firsts :
                    dedupe_result[Cardinality({j \in firsts : j <= i})]
                        = dedupe_input[i]
        /\ fpc # "init" =>
              \A l \in {_font_paths_cache.emoji, _font_paths_cache.cjk,
                        _font_paths_cache.latin, _font_paths_cache.generic} :
                 distinct(l) /\ \A k \in 1..Len(l) : exists(l[k])

\* A file, a missing file and the relative form of the first file: one entry.
C12_Witness ==
    /\ fpc = "deduped"
    /\ fontEnv = {FONT_PATH_ZH}
    /\ dedupe_input = <<FONT_PATH_ZH, "sysLatin", "./zh_font">>
    /\ dedupe_result = <<FONT_PATH_ZH>>

\* C13: the font of a cluster is the head of the list of the first rule that
\* applies, in the order emoji -> Emoji list, CJK -> CJK list, ASCII letter
\* or digit -> Latin list, fullwidth punctuation -> CJK list, ASCII
\* punctuation -> Latin list, any cluster -> Latin list, any cluster ->
\* Generic list, where a rule applies when its predicate holds and its list
\* is not empty; when no rule applies it is the built-in default font.
C13_FirstMatchWins ==
    fpc = "chosen" =>
        LET c == chosen_cluster
            t == _font_paths_cache
            rules == << <<_contains_emoji(c), t.emoji>>,
                        <<_contains_cjk(c), t.cjk>>,
                        <<_contains_ascii_alnum(c), t.latin>>,
                        <<_is_fullwidth_punct_cluster(c), t.cjk>>,
                        <<_is_ascii_punct_cluster(c), t.latin>>,
                        <<TRUE, t.latin>>,
                        <<TRUE, t.generic>> >>
            applies == {k \in 1..7 : rules[k][1] /\ rules[k][2] # <<>>}
        IN  IF applies = {}
            THEN chosen_font = DefaultFont
            ELSE \E k \in applies :
                    /\ \A j \in applies : k <= j
                    /\ chosen_font = rules[k][2][1]

\* The cluster U+4E2D ZWJ U+1F389 holds a CJK ideograph and an emoji; with
\* the bundled fonts and a system emoji font it gets the emoji font.
C13_Witness ==
    /\ fpc = "chosen"
    /\ chosen_cluster = <<CpCjk, ZWJ, CpEmoji>>
    /\ fontEnv = {FONT_PATH_ZH, FONT_PATH_EN, "sysEmoji"}
    /\ chosen_font = "sysEmoji"

\* C14: when _draw_sync starts, runs or has run, both fetches of
\* _prepare_resources have finished (bg_data and avatar_data are assigned,
\* with bytes or with None); no step of _draw_sync is taken while a fetch is
\* idle or in flight.
C14_FetchesFinishBeforeDrawSync ==
    dpc \notin {"prepare_bg", "await_bg", "prepare_avatar", "await_avatar"}
        => fetch_state = [bg |-> "done", avatar |-> "done"]

\* _draw_sync starts after both fetches ended with None.
C14_Witness ==
    /\ dpc = "check_bg"
    /\ fetch_state = [bg |-> "done", avatar |-> "done"]
    /\ bg_data = "None"
    /\ avatar_data = "None"

\* C16 as stated: once _draw_sync has returned or raised, every image it
\* created has been closed.
C16_AllLayersClosed ==
    dpc \in {"return", "except", "returned"} => open_layers = {}

(***************************************************************************)
(* SpecAvatars: ImpressionRankingImageGen._prepare_avatars (lines          *)
(* 1174-1210).  One fetch_one task per distinct user id runs under         *)
(* asyncio.gather; a task holds a permit of the semaphore while its        *)
(* request is in flight.  The event loop runs every task that can run, and *)
(* a request ends with a response, an error or its 12 s timeout.           *)
(***************************************************************************)
MaxEntries == 9     \* most ranking entries with distinct numeric ids tried

\* The ids of the model for which str.isdigit() holds (line 1190).
NumericIds == <<"1", "2", "3", "4", "5", "6", "7", "8", "9", "10", "11", "12">>

\* Lines 1175-1182: uid = str(user_id or "").strip(); empty and repeated ids
\* are skipped, the others keep their order.
CollectUserIds(es) ==
    LET strip(raw) == IF raw = " 1" THEN "1" ELSE raw
        RECURSIVE loop(_, _, _)
        loop(i, seen, out) ==
            IF i > Len(es) THEN out
            ELSE LET uid == strip(es[i]) IN
                 IF uid = "" \/ uid \in seen THEN loop(i + 1, seen, out)
                 ELSE loop(i + 1, seen \cup {uid}, Append(out, uid))
    IN  loop(1, {}, <<>>)

\* The entries: n distinct numeric ids, or a list with a repeated id, an id
\* with a leading blank, a missing id and an id that is not a number.
AvatarsInit ==
    /\ apc = "start"
    /\ entries \in
          {SubSeq(NumericIds, 1, n) : n \in 0..MaxEntries}
          \cup {<<"1", "2", " 1", "", "abc", "2">>, <<"", "">>}
    /\ user_ids = <<>>
    /\ task = <<>>
    /\ permits = 0
    /\ requests = <<>>
    /\ avatar_map = {}
    /\ TextIdle
    /\ StatIdle
    /\ DrawIdle
    /\ OthersIdle("avatars")

\* Lines 1175-1187 and 1204-1207: the ids are collected; without ids the
\* method returns, otherwise the semaphore is made and the tasks are created.
StartTasks ==
    /\ apc = "start"
    /\ user_ids' = CollectUserIds(entries)
    /\ task' = [i \in 1..Len(user_ids') |-> "new"]
    /\ requests' = [i \in 1..Len(user_ids') |-> 0]
    /\ permits' = 8
    /\ apc' = IF user_ids' = <<>> THEN "returned" ELSE "gather"
    /\ UNCHANGED <<entries, avatar_map, textVars, statVars, drawVars, pathVars,
                   fontVars, badgeVars, layoutVars, signVars>>

\* Lines 1190-1191: a task whose id is not a number returns at once.
TaskSkips ==
    /\ apc = "gather"
    /\ \E i \in 1..Len(user_ids) :
          /\ task[i] = "new"
          /\ \A k \in 1..Len(NumericIds) : user_ids[i] # NumericIds[k]
          /\ task' = [task EXCEPT ![i] = "done"]
    /\ UNCHANGED <<apc, entries, user_ids, permits, requests, avatar_map,
                   textVars, statVars, drawVars, pathVars, fontVars, badgeVars, layoutVars,
                   signVars>>

\* A task that starts its request without a permit of the semaphore.
TaskAcquiresWithoutSemaphore ==
    /\ apc = "gather"
    /\ \E i \in 1..Len(user_ids) :
          /\ task[i] = "new"
          /\ \E k \in 1..Len(NumericIds) : user_ids[i] = NumericIds[k]
          /\ task' = [task EXCEPT ![i] = "in_flight"]
          /\ requests' = [requests EXCEPT ![i] = @ + 1]
    /\ UNCHANGED <<apc, entries, user_ids, permits, avatar_map, textVars,
                   statVars, drawVars, pathVars, fontVars, badgeVars, layoutVars, signVars>>

\* Lines 1194-1195: a task takes a permit of the semaphore, when one is free,
\* and sends its request.
TaskAcquires ==
    /\ apc = "gather"
    /\ permits > 0
    /\ \E i \in 1..Len(user_ids) :
          /\ task[i] = "new"
          /\ \E k \in 1..Len(NumericIds) : user_ids[i] = NumericIds[k]
          /\ task' = [task EXCEPT ![i] = "in_flight"]
          /\ requests' = [requests EXCEPT ![i] = @ + 1]
    /\ permits' = permits - 1
    /\ UNCHANGED <<apc, entries, user_ids, avatar_map, textVars, statVars,
                   drawVars, pathVars, fontVars, badgeVars, layoutVars, signVars>>

\* Lines 1195-1201: the request ends.  Status 200 with bytes stores them; any
\* other status, an empty body, an error or the timeout stores nothing (the
\* exception is swallowed).  Leaving the with block gives the permit back.
\* The avatar server of the model has bytes for the ids "1", "4", "7", "10";
\* the requests for the other ids fail.
FetchEnds ==
    /\ apc = "gather"
    /\ \E i \in 1..Len(user_ids) :
          /\ task[i] = "in_flight"
          /\ task' = [task EXCEPT ![i] = "done"]
          /\ avatar_map' =
                IF \E k \in 1..Len(NumericIds) :
                      user_ids[i] = NumericIds[k] /\ k % 3 = 1
                THEN avatar_map \cup {user_ids[i]}
                ELSE avatar_map
    /\ permits' = permits + 1
    /\ UNCHANGED <<apc, entries, user_ids, requests, textVars, statVars,
                   drawVars, pathVars, fontVars, badgeVars, layoutVars, signVars>>

\* Lines 1206-1209: gather returns when every task has finished, and
\* self.avatar_map is assigned.
GatherReturns ==
    /\ apc = "gather"
    /\ \A i \in 1..Len(user_ids) : task[i] = "done"
    /\ apc' = "returned"
    /\ UNCHANGED <<entries, user_ids, task, permits, requests, avatar_map,
                   textVars, statVars, drawVars, pathVars, fontVars, badgeVars, layoutVars,
                   signVars>>

AvatarsNext ==
    \/ StartTasks
    \/ TaskSkips
    \/ TaskAcquires
    \/ FetchEnds
    \/ GatherReturns

\* Every step that can be taken is taken in the end: the event loop runs the
\* tasks that are ready, and no request outlives its timeout.
SpecAvatars == AvatarsInit /\ [][AvatarsNext]_vars /\ WF_vars(AvatarsNext)

\* C15: at most 8 requests are in flight at any time; no task sends more than
\* one request and no two tasks have the same user id, so an id is requested
\* at most once; and _prepare_avatars returns in the end, whatever the
\* outcome of each request.
C15_BoundedFetchesAndReturn ==
    /\ [](/\ Cardinality({i \in 1..Len(task) : task[i] = "in_flight"}) <= 8
          /\ \A i \in 1..Len(requests) : requests[i] <= 1
          /\ \A i, j \in 1..Len(user_ids) :
                i # j => user_ids[i] # user_ids[j])
    /\ <>(apc = "returned")

\* Nine ids: eight requests are in flight and the ninth task waits for a
\* permit.
C15_Witness ==
    /\ apc = "gather"
    /\ Len(user_ids) = 9
    /\ Cardinality({i \in 1..Len(task) : task[i] = "in_flight"}) = 8
    /\ permits = 0
    /\ \E i \in 1..Len(task) : task[i] = "new"

(***************************************************************************)
(* SpecBadge: the badge geometry of _draw_sync (lines 821-857) for canvas  *)
(* heights from 680 up and nicknames of up to MaxNicknameLen glyphs.  The  *)
(* canvas is 1280 wide.  A glyph of the nickname is one em wide, so the    *)
(* nickname measures nickname_len * size pixels at a font size.  int(x *   *)
(* 0.17) and the like are computed on integers, in hundredths.             *)
(***************************************************************************)
MaxNicknameLen == 64    \* longest nickname tried, in glyphs

\* Line 851 without the clamp.
ClampBlockWidthNone(right_block_w, max_block_w) == right_block_w

\* Line 851: right_block_w = min(right_block_w, max_block_w).
ClampBlockWidth(right_block_w, max_block_w) ==
    IF right_block_w <= max_block_w THEN right_block_w ELSE max_block_w

\* Lines 821-857 for a canvas height h and a nickname of n glyphs.
BadgeGeometry(h, n) ==
    LET max(a, b) == IF a >= b THEN a ELSE b
        min(a, b) == IF a <= b THEN a ELSE b
        target_width == 1280
        left_x == 60
        avatar_size == max(96, min(150, (h * 17) \div 100))
        identity_x == left_x + 12
        left_block_size == avatar_size + 18
        left_block_x == identity_x
        right_block_x == left_block_x + left_block_size - 4
        min_nickname_font == 16
        max_block_w == max(110, target_width - right_block_x - 24)
        RECURSIVE loop(_, _, _)
        \* the while loop of lines 842-854
        loop(nickname_font_size, nickname_padding_x, rounds) ==
            LET nickname_w == n * nickname_font_size
                right_block_w == max(110, nickname_w + nickname_padding_x * 2)
            IN  IF right_block_w <= max_block_w
                   \/ nickname_font_size <= min_nickname_font
                THEN [right_block_x |-> right_block_x,
                      right_block_w |-> ClampBlockWidth(right_block_w,
                                                        max_block_w),
                      max_block_w |-> max_block_w,
                      nickname_font_size |-> nickname_font_size,
                      rounds |-> rounds]
                ELSE loop(nickname_font_size - 1,
                          max(10, ((nickname_font_size - 1) * 40) \div 100),
                          rounds + 1)
        font_size_0 == max(24, min(40, (h * 48) \div 1000))
    IN  loop(font_size_0, max(14, (font_size_0 * 45) \div 100), 0)

\* Line 769: target_height = max(680, int(bg_h * scale)); a background is
\* cropped to at most twice its width (lines 764-766), 2560 at this scale.
BadgeInit ==
    /\ bpc = "input"
    /\ target_height \in {680, 681, 705, 706, 882, 883, 1000, 2560}
    /\ nickname_len \in 0..MaxNicknameLen
    /\ badge = <<>>
    /\ npc = "idle"
    /\ font_size = 0
    /\ padding_x = 0
    /\ shrink_steps = 0
    /\ measured_w = <<>>
    /\ ipc = "idle"
    /\ label_h = <<>>
    /\ info_y = <<>>
    /\ TextIdle
    /\ StatIdle
    /\ DrawIdle
    /\ OthersIdle("badge")

ComputeBadge ==
    /\ bpc = "input"
    /\ badge' = BadgeGeometry(target_height, nickname_len)
    /\ bpc' = "done"
    /\ UNCHANGED <<target_height, nickname_len, npc, font_size, padding_x,
                   shrink_steps, measured_w, ipc, label_h, info_y, textVars, statVars, drawVars,
                   pathVars, fontVars, poolVars, layoutVars, signVars>>

SpecBadge == BadgeInit /\ [][ComputeBadge]_vars

\* C17: the right edge of the nickname plate, right_block_x + right_block_w,
\* is at most the canvas width 1280 less 24, and the plate is at least 110
\* wide.
C17_BadgeInsideCanvas ==
    bpc = "done" =>
        /\ badge.right_block_x + badge.right_block_w <= 1280 - 24
        /\ badge.right_block_w >= 110

\* A nickname of 64 glyphs is too wide even at the smallest font size 16; the
\* plate is cut to the widest plate that fits.
C17_Witness ==
    /\ bpc = "done"
    /\ nickname_len = 64
    /\ badge.nickname_font_size = 16
    /\ badge.rounds > 0
    /\ badge.right_block_w = badge.max_block_w
    /\ 64 * 16 > badge.max_block_w

(***************************************************************************)
(* SpecSign: the sign-in data of one user.  A row of sign_data is a record *)
(* of total_days, last_sign, continuous_days, impression and level; an     *)
(* absent row is <<>>, and so are the None of load_data and the empty      *)
(* last_sign.  last_sign is <<d>> for a time stamp of day d.  Impressions  *)
(* and next_score are in hundredths.  The databases answer every query.    *)
(***************************************************************************)
MaxDays == 4        \* the days of the model are 1..MaxDays

\* load_data that gives None as soon as one store has no row.
LoadDataNoneWhenHalfMissing(sign, wallet) ==
    IF sign = <<>> \/ wallet = <<>> THEN <<>>
    ELSE <<[row |-> sign, coins |-> wallet[1]]>>

\* handle.py 113-132: None when the user is in neither store, else the sign
\* row (or only the user id) with the coins of the wallet, 0 without one.
\* The merged dictionary is <<[row |-> the sign row or <<>>, coins |-> n]>>.
load_data(sign, wallet) ==
    IF sign = <<>> /\ wallet = <<>> THEN <<>>
    ELSE <<[row |-> sign, coins |-> IF wallet = <<>> THEN 0 ELSE wallet[1]]>>

\* handle.py 166-178 with 140-144: int(impression / next_score) + 1, at most
\* 8; 1 when the division raises.  int() rounds towards zero.
_update_level(userdata, add_impression, self_next_score) ==
    LET total ==
            IF userdata = <<>> \/ userdata[1].row = <<>> THEN add_impression
            ELSE userdata[1].row[1].impression + add_impression
        abs(x) == IF x < 0 THEN 0 - x ELSE x
        quotient == IF (total >= 0) = (self_next_score > 0)
                    THEN abs(total) \div abs(self_next_score)
                    ELSE 0 - (abs(total) \div abs(self_next_score))
    IN  IF self_next_score = 0 THEN 1
        ELSE IF quotient + 1 > 8 THEN 8 ELSE quotient + 1

\* _is_today that never finds a sign-in of today.
IsTodayNever(userdata, day) == FALSE

\* handle.py 196-204: last_sign starts with today's date; False when there
\* is no dictionary or no last_sign.
_is_today(userdata, day) ==
    /\ userdata # <<>> /\ userdata[1].row # <<>>
    /\ userdata[1].row[1].last_sign = <<day>>

\* _is_continuous that accepts every earlier day as the day before.
IsContinuousAfterAnyGap(userdata, day) ==
    /\ userdata # <<>> /\ userdata[1].row # <<>>
    /\ userdata[1].row[1].last_sign # <<>>
    /\ userdata[1].row[1].last_sign[1] < day

\* handle.py 184-194: last_sign starts with yesterday's date; False when
\* there is no dictionary or no last_sign.
_is_continuous(userdata, day) ==
    /\ userdata # <<>> /\ userdata[1].row # <<>>
    /\ userdata[1].row[1].last_sign = <<day - 1>>

\* handle.py 206-219 with 140-164 and 180-182: the row and the coins that
\* _update_data stores on day `day`.  A missing dictionary or a missing
\* field makes the helper's try fail, which gives the value of a new user.
_update_data(userdata, add_coins, add_impression, self_next_score, day) ==
    LET has_row == userdata # <<>> /\ userdata[1].row # <<>>
        row == userdata[1].row[1]
    IN  [sign |-> <<[total_days |-> IF has_row THEN row.total_days + 1 ELSE 1,
                     last_sign |-> <<day>>,
                     continuous_days |-> IF _is_continuous(userdata, day)
                                         THEN row.continuous_days + 1 ELSE 1,
                     impression |-> IF has_row
                                    THEN row.impression + add_impression
                                    ELSE add_impression,
                     level |-> _update_level(userdata, add_impression,
                                             self_next_score)]>>,
         wallet |-> <<(IF userdata = <<>> THEN 0 ELSE userdata[1].coins)
                      + add_coins>>]

\* use_resign_card that accepts every number of missed days.
UseResignCardForAnyGap(sign, max_break_days, day) ==
    IF sign = <<>> \/ sign[1].last_sign = <<>>
    THEN [success |-> FALSE, sign |-> sign]
    ELSE IF (day - sign[1].last_sign[1]) - 1 <= 0
            \/ sign[1].continuous_days <= 0
         THEN [success |-> FALSE, sign |-> sign]
         ELSE [success |-> TRUE,
               sign |-> <<[sign[1] EXCEPT !.last_sign = <<day - 1>>]>>]

\* handle.py 235-275: the row after use_resign_card on day `day`; the row is
\* changed only when a streak is broken by 1..max_break_days days.
use_resign_card(sign, max_break_days, day) ==
    IF sign = <<>> \/ sign[1].last_sign = <<>>
    THEN [success |-> FALSE, sign |-> sign]
    ELSE LET missed_days == (day - sign[1].last_sign[1]) - 1 IN
         IF \/ missed_days <= 0
            \/ missed_days > max_break_days
            \/ sign[1].continuous_days <= 0
         THEN [success |-> FALSE, sign |-> sign]
         ELSE [success |-> TRUE,
               sign |-> <<[sign[1] EXCEPT !.last_sign = <<day - 1>>]>>]

\* A failed attempt that does not give the card back.
AddItemForgotten(cards, k) == cards

\* handle.py 342: inventory_db.add_item(user_id, item_key, 1) puts the card
\* of kind k back.
add_item(cards, k) == [cards EXCEPT ![k] = @ + 1]

\* handle.py 278-349: the owned cards that cover the missed days are tried in
\* the order primary (1), intermediate (2), advanced (3): the card is
\* removed and used, and it is put back when use_resign_card fails.  cards
\* is <<>> when the shop plugin cannot be imported, else the quantities of
\* the three cards.  db_ok is whether the database of use_resign_card
\* answers; when it raises, use_resign_card returns failure (lines 271-273).
auto_resign_with_owned_card(sign, cards, day, db_ok) ==
    IF cards = <<>> \/ sign = <<>> \/ sign[1].last_sign = <<>>
    THEN [returned |-> FALSE, sign |-> sign, cards |-> cards, tried |-> <<>>]
    ELSE LET missed_days == (day - sign[1].last_sign[1]) - 1
             candidates == IF missed_days <= 1 THEN <<1, 2, 3>>
                           ELSE IF missed_days = 2 THEN <<2, 3>> ELSE <<3>>
             RECURSIVE loop(_, _, _)
             loop(i, inv, tried) ==
                 IF i > Len(candidates)
                 THEN [returned |-> FALSE, sign |-> sign, cards |-> inv,
                       tried |-> tried]
                 ELSE LET k == candidates[i]
                          removed == [inv EXCEPT ![k] = @ - 1]
                          used == IF db_ok THEN use_resign_card(sign, k, day)
                                  ELSE [success |-> FALSE, sign |-> sign]
                      IN  IF inv[k] <= 0 THEN loop(i + 1, inv, tried)
                          ELSE IF used.success
                               THEN [returned |-> TRUE, sign |-> used.sign,
                                     cards |-> removed,
                                     tried |-> Append(tried, k)]
                               ELSE loop(i + 1, add_item(removed, k),
                                         Append(tried, k))
         IN  IF missed_days <= 0 \/ missed_days > 3
             THEN [returned |-> FALSE, sign |-> sign, cards |-> cards,
                   tried |-> <<>>]
             ELSE loop(1, cards, <<>>)

\* The configurations of components.next_score (a float field that is not
\* validated), the rows a returning user may have, the card quantities.
NextScoreConfigs == {0 - 50, 0, 50, 2500}
\* The days on which the sign-ins of a stored row completed.
DaysOfRow(sign) ==
    IF sign = <<>> THEN {}
    ELSE {sign[1].last_sign[1] - k : k \in 0..(sign[1].continuous_days - 1)}

StoredRows ==
    {<<>>} \cup {<<[total_days |-> 3, last_sign |-> <<d>>,
                    continuous_days |-> 3, impression |-> 0, level |-> 1]>> :
                 d \in {0 - 1, 0}}
OwnedCards == {<<>>, <<0, 0, 0>>, <<1, 0, 0>>, <<0, 0, 1>>}

SignInit ==
    /\ TextIdle /\ StatIdle /\ DrawIdle /\ OthersIdle("sign")
    /\ hpc = "ready"
    /\ today = 1
    /\ config_next_score \in NextScoreConfigs
    /\ sign_row \in StoredRows
    /\ wallet_row \in {<<>>, <<30>>}
    /\ inventory \in OwnedCards
    /\ call = <<>>
    /\ signed_days = DaysOfRow(sign_row)
    /\ used_cards = 0
    /\ calls = <<>>

\* plugin.py 253-299: one Sign.execute of the user, up to the drawing of the
\* card.  add_coins is random.randint(1, 50), add_impression is
\* round(random.uniform(0, 1), 2).
SignIn ==
    /\ hpc = "ready"
    /\ \E base_coins \in {1, 50}, add_impression \in {0, 100} :
         LET first == load_data(sign_row, wallet_row)
             resigned == auto_resign_with_owned_card(sign_row, inventory,
                                                     today, TRUE)
             userdata == load_data(resigned.sign, wallet_row)
             next_continuous_days ==
                 IF _is_continuous(userdata, today)
                 THEN userdata[1].row[1].continuous_days + 1 ELSE 1
             add_coins ==
                 IF next_continuous_days >= 7
                 THEN base_coins + (base_coins * 15) \div 100
                 ELSE IF next_continuous_days >= 3
                      THEN base_coins + (base_coins * 10) \div 100
                      ELSE base_coins
             stored == _update_data(userdata, add_coins, add_impression,
                                    config_next_score, today)
             this == [day |-> today, before_sign |-> sign_row,
                      before_wallet |-> wallet_row,
                      base_coins |-> base_coins, add_coins |-> add_coins,
                      add_impression |-> add_impression]
         IN  IF _is_today(first, today)
             THEN /\ call' = <<[this EXCEPT !.add_coins = base_coins]
                                @@ [outcome |-> "already"]>>
                  /\ UNCHANGED <<sign_row, wallet_row, inventory, signed_days,
                                 used_cards>>
             ELSE /\ sign_row' = stored.sign
                  /\ wallet_row' = stored.wallet
                  /\ inventory' = resigned.cards
                  /\ call' = <<this @@ [outcome |-> "signed"]>>
                  /\ signed_days' = signed_days \cup {today}
                  /\ used_cards' = IF resigned.cards = inventory
                                   THEN used_cards ELSE used_cards + 1
    /\ UNCHANGED <<hpc, today, config_next_score, calls, textVars, statVars,
                   drawVars, pathVars, fontVars, poolVars, badgeVars, layoutVars>>

\* datetime.date.today() moves on to the next day.
NextDay ==
    /\ hpc = "ready"
    /\ today < MaxDays
    /\ today' = today + 1
    /\ UNCHANGED <<hpc, config_next_score, sign_row, wallet_row, inventory,
                   call, signed_days, used_cards, calls, textVars, statVars, drawVars, pathVars, fontVars,
                   poolVars, badgeVars, layoutVars>>

SignNext == SignIn \/ NextDay

SpecSign == SignInit /\ [][SignNext]_vars

\* C19: the level stored by a sign-in is within 1..8 for every accumulated
\* impression and every configured next_score, and it is
\* min(8, floor(impression / next_score) + 1) when next_score > 0.
C19_LevelWithinOneToEight ==
    (call # <<>> /\ call[1].outcome = "signed") =>
        /\ sign_row[1].level \in 1..8
        /\ config_next_score > 0 =>
             sign_row[1].level =
                 LET l == (sign_row[1].impression \div config_next_score) + 1
                 IN  IF l < 8 THEN l ELSE 8

\* C20: a first sign-in of a user who is in neither store does not fail and
\* stores total_days 1, continuous_days 1, the impression and the coins of
\* this sign-in, and level 1 when the impression is below next_score; a user
\* who is in one store only gets the same values for the missing half.
C20_NewUserDefaults ==
    call # <<>> =>
        LET c == call[1] IN
        /\ c.before_sign = <<>> =>
             /\ c.outcome = "signed"
             /\ sign_row # <<>>
             /\ sign_row[1].total_days = 1
             /\ sign_row[1].continuous_days = 1
             /\ sign_row[1].impression = c.add_impression
             /\ sign_row[1].last_sign = <<c.day>>
             /\ c.add_impression < config_next_score => sign_row[1].level = 1
             /\ c.add_coins = c.base_coins
             /\ wallet_row = <<(IF c.before_wallet = <<>> THEN 0
                                ELSE c.before_wallet[1]) + c.base_coins>>
        /\ (c.before_wallet = <<>> /\ c.outcome = "signed") =>
             wallet_row = <<c.add_coins>>

C20_Witness ==
    /\ call # <<>>
    /\ call[1].before_sign = <<>>
    /\ call[1].before_wallet = <<>>
    /\ call[1].outcome = "signed"
    /\ call[1].add_impression = 100
    /\ config_next_score = 2500
    /\ sign_row[1].level = 1
    /\ wallet_row = <<50>>

\* C21: for a user without resign cards the stored continuous_days is the
\* number of consecutive days, ending with the day of the latest sign-in, on
\* each of which a sign-in completed: a sign-in the day after last_sign
\* stores the previous streak + 1, any other sign-in stores 1.
C21_StreakCountsConsecutiveDays ==
    (sign_row # <<>> /\ used_cards = 0
     /\ (inventory = <<>> \/ inventory = <<0, 0, 0>>)) =>
        LET last == sign_row[1].last_sign[1]
            run == CHOOSE n \in 1..(MaxDays + 3) :
                       /\ \A k \in 0..(n - 1) : (last - k) \in signed_days
                       /\ (last - n) \notin signed_days
        IN  /\ last \in signed_days
            /\ sign_row[1].continuous_days = run
            /\ (call # <<>> /\ call[1].outcome = "signed"
                /\ call[1].before_sign # <<>>) =>
                 sign_row[1].continuous_days =
                     IF call[1].before_sign[1].last_sign = <<call[1].day - 1>>
                     THEN call[1].before_sign[1].continuous_days + 1
                     ELSE 1

C21_Witness ==
    /\ inventory = <<0, 0, 0>>
    /\ used_cards = 0
    /\ sign_row # <<>>
    /\ signed_days = {0 - 2, 0 - 1, 0, 2, 3}
    /\ sign_row[1].continuous_days = 2
    /\ sign_row[1].total_days = 5

\* C22: _prepare_resources issues the background fetch and the avatar fetch
\* concurrently: the avatar request has been started by the time the
\* background fetch completes, so that the two fetches overlap.
C22_FetchesIssuedTogether ==
    fetch_state.bg = "done" => fetch_state.avatar \in {"in_flight", "done"}

\* C23: the runs of _build_text_chunks concatenate to the text; every run is
\* non-empty and made of whole clusters; the clusters of a run resolve to
\* the handle of the run; adjacent runs have different handles; the empty
\* text has no runs.  Two handles are the same object when both are the
\* cached handle of one path; each ImageFont.load_default() is a new object.
C23_RunsAreMaximal ==
    fpc = "built" =>
        LET n == Len(built_chunks)
            parts == [i \in 1..n |-> _split_text_clusters(built_chunks[i].text)]
            font_of(c) == _choose_font(c, DateSize, _font_paths_cache)
            same(a, b) == a = b /\ a # DefaultFont
        IN  /\ Concat([i \in 1..n |-> built_chunks[i].text]) = built_text
            /\ Concat(parts) = _split_text_clusters(built_text)
            /\ \A i \in 1..n :
                 /\ built_chunks[i].text # <<>>
                 /\ font_of(parts[i][1]) = built_chunks[i].font
                 /\ \A j \in 2..Len(parts[i]) :
                      same(font_of(parts[i][j]), built_chunks[i].font)
            /\ \A i \in 1..(n - 1) :
                 ~same(built_chunks[i].font, built_chunks[i + 1].font)
            /\ built_text = <<>> => built_chunks = <<>>

C23_Witness ==
    /\ fpc = "built"
    /\ built_text = <<CpLatinA, CpDot, CpCjk>>
    /\ Len(built_chunks) = 2
    /\ built_chunks[1].text = <<CpLatinA, CpDot>>
    /\ built_chunks[1].font # built_chunks[2].font

(***************************************************************************)
(* SpecMix: one call of _draw_text_mixed(draw, x, y, text, size, anchor,   *)
(* shadow_color, shadow_offset).  Positions are in half pixels, so that    *)
(* the halves of the "m" anchors are integers.  A draw.text call is the    *)
(* record of its pass, position, text and font.                            *)
(***************************************************************************)
MaxMixLen == 2      \* longest text drawn, in code points

\* The shadow pass that looks at the colour only.
ShadowPassForAnyOffset(color, offset) == color # <<>>

\* Line 695: `if shadow_color and shadow_offset != (0, 0)`.
ShadowPass(color, offset) == color # <<>> /\ offset # <<0, 0>>

MixInit ==
    /\ mpc = "call"
    /\ mix_text \in UNION {[1..n -> {CpLatinA, CpDot, CpCjk, CpEmoji}] :
                           n \in 0..MaxMixLen}
    /\ anchor \in {<<"l", "t">>, <<"m", "m">>, <<"r", "b">>}
    /\ shadow_color \in {<<>>, <<"rgba">>}
    /\ shadow_offset \in {<<0, 0>>, <<1, 1>>, <<0, 2>>, <<3, 3>>}
    /\ draw_calls = <<>>
    /\ fontEnv \in FontEnvs
    /\ _font_paths_cache = _get_font_paths(fontEnv)
    /\ tpc = "idle"
    /\ text = <<>>
    /\ max_width = 0
    /\ clusters = <<>>
    /\ truncated = <<>>
    /\ retruncated = <<>>
    /\ StatIdle
    /\ DrawIdle
    /\ OthersIdle("mix")

\* Lines 644-723 at x = 100, y = 50, size = DateSize: the runs are measured,
\* the anchor gives the start, then the shadow pass (if any) and the main
\* pass call draw.text run by run.  font.getmetrics() is the ascent and the
\* descent of the font at that size.
DrawTextMixed ==
    /\ mpc = "call"
    /\ LET runs == _build_text_chunks(mix_text, DateSize, _font_paths_cache)
           n == Len(runs)
           width(i) == 2 * GetLength(runs[i].font, DateSize, runs[i].text)
           ascent(i) == IF runs[i].font \in {FONT_PATH_ZH, "sysCJK"}
                        THEN 2 * ((DateSize * 9) \div 10)
                        ELSE IF runs[i].font = "sysEmoji" THEN 2 * DateSize
                        ELSE 2 * ((DateSize * 4) \div 5)
           descent(i) == 2 * (DateSize \div 4)
           max2(a, b) == IF a > b THEN a ELSE b
           total_w == SumSeq([i \in 1..n |-> width(i)])
           MaxOf[i \in 0..n] ==
               IF i = 0 THEN [a |-> 0, d |-> 0]
               ELSE [a |-> max2(MaxOf[i - 1].a, ascent(i)),
                     d |-> max2(MaxOf[i - 1].d, descent(i))]
           max_ascent == MaxOf[n].a
           line_height == MaxOf[n].a + MaxOf[n].d
           start_x == IF anchor[1] = "m" THEN 200 - total_w \div 2
                      ELSE IF anchor[1] = "r" THEN 200 - total_w ELSE 200
           top_y == IF anchor[2] = "m" THEN 100 - line_height \div 2
                    ELSE IF anchor[2] = "b" THEN 100 - line_height ELSE 100
           baseline_y == top_y + max_ascent
           before(i) == SumSeq([k \in 1..(i - 1) |-> width(k)])
           shadow == [i \in 1..n |->
                        [pass |-> "shadow",
                         x |-> (start_x + 2 * shadow_offset[1]) + before(i),
                         y |-> (baseline_y - ascent(i)) + 2 * shadow_offset[2],
                         text |-> runs[i].text, font |-> runs[i].font]]
           main == [i \in 1..n |->
                        [pass |-> "main",
                         x |-> start_x + before(i),
                         y |-> baseline_y - ascent(i),
                         text |-> runs[i].text, font |-> runs[i].font]]
       IN  draw_calls' = IF ShadowPass(shadow_color, shadow_offset)
                         THEN shadow \o main ELSE main
    /\ mpc' = "returned"
    /\ UNCHANGED <<mix_text, anchor, shadow_color, shadow_offset, textVars,
                   statVars, drawVars, pathVars, fontVars, poolVars,
                   badgeVars, signVars>>

SpecMix == MixInit /\ [][DrawTextMixed]_vars

\* C24: _draw_text_mixed makes a shadow pass exactly when shadow_color is set
\* and shadow_offset is not (0, 0); then every shadow call precedes every
\* main call, the shadow pass draws the same runs in the same order, each
\* shifted by exactly shadow_offset; without a shadow pass every run is
\* drawn exactly once.
C24_ShadowPassBeneathMainPass ==
    mpc = "returned" =>
        LET runs == _build_text_chunks(mix_text, DateSize, _font_paths_cache)
            n == Len(runs)
            expected == shadow_color # <<>> /\ shadow_offset # <<0, 0>>
            m == Len(draw_calls) - n
        IN  /\ m = IF expected THEN n ELSE 0
            /\ \A i \in 1..m : draw_calls[i].pass = "shadow"
            /\ \A i \in 1..n :
                 /\ draw_calls[m + i].pass = "main"
                 /\ draw_calls[m + i].text = runs[i].text
                 /\ draw_calls[m + i].font = runs[i].font
            /\ \A i \in 1..m :
                 /\ draw_calls[i].text = draw_calls[m + i].text
                 /\ draw_calls[i].font = draw_calls[m + i].font
                 /\ draw_calls[i].x = draw_calls[m + i].x + 2 * shadow_offset[1]
                 /\ draw_calls[i].y = draw_calls[m + i].y + 2 * shadow_offset[2]

C24_Witness ==
    /\ mpc = "returned"
    /\ shadow_color # <<>>
    /\ shadow_offset = <<3, 3>>
    /\ anchor = <<"m", "m">>
    /\ Len(draw_calls) = 4
    /\ draw_calls[1].pass = "shadow"
    /\ draw_calls[1].y # draw_calls[2].y
    /\ draw_calls[3].pass = "main"

(***************************************************************************)
(* SpecNick: the nickname-fitting loop of _draw_sync (lines 828-853), one  *)
(* step per iteration.  _measure_text_mixed may answer any width at any    *)
(* iteration.                                                              *)
(***************************************************************************)
\* Widths _measure_text_mixed may report, in pixels.
MeasuredWidths == {0, 900, 1100, 3000}

\* Line 828: nickname_font_size before the loop, for a canvas height h.
StartFontSize(h) ==
    LET s == (h * 48) \div 1000
    IN  IF s > 40 THEN 40 ELSE IF s < 24 THEN 24 ELSE s

NickInit ==
    /\ npc = "loop"
    /\ target_height \in {680, 681, 705, 706, 882, 883, 1000, 2560}
    /\ font_size = StartFontSize(target_height)
    /\ padding_x = (IF (font_size * 45) \div 100 > 14
                    THEN (font_size * 45) \div 100 ELSE 14)
    /\ shrink_steps = 0
    /\ measured_w = <<>>
    /\ ipc = "idle"
    /\ label_h = <<>>
    /\ info_y = <<>>
    /\ bpc = "idle"
    /\ nickname_len = 0
    /\ badge = <<>>
    /\ TextIdle
    /\ StatIdle
    /\ DrawIdle
    /\ OthersIdle("badge")

\* The loop without the floor of min_nickname_font.
NickIterateWithoutFloor ==
    /\ npc = "loop"
    /\ font_size > 0
    /\ \E w \in MeasuredWidths :
         /\ measured_w' = <<w>>
         /\ IF w + padding_x * 2 <= 1000
            THEN /\ npc' = "exit"
                 /\ UNCHANGED <<font_size, padding_x, shrink_steps>>
            ELSE /\ font_size' = font_size - 1
                 /\ padding_x' = 10
                 /\ shrink_steps' = shrink_steps + 1
                 /\ npc' = npc
    /\ UNCHANGED <<bpc, target_height, nickname_len, badge, ipc, label_h,
                   info_y, textVars, statVars,
                   drawVars, pathVars, fontVars, poolVars, layoutVars,
                   signVars>>

\* Lines 842-854: one iteration: measure, then leave the loop or shrink.
NickIterate ==
    /\ npc = "loop"
    /\ \E w \in MeasuredWidths :
         LET max(a, b) == IF a >= b THEN a ELSE b
             min(a, b) == IF a <= b THEN a ELSE b
             avatar_size == max(96, min(150, (target_height * 17) \div 100))
             right_block_x == (72 + (avatar_size + 18)) - 4
             max_block_w == max(110, (1280 - right_block_x) - 24)
             right_block_w == max(110, w + padding_x * 2)
         IN  /\ measured_w' = <<w>>
             /\ IF right_block_w <= max_block_w \/ font_size <= 16
                THEN /\ npc' = "exit"
                     /\ UNCHANGED <<font_size, padding_x, shrink_steps>>
                ELSE /\ font_size' = font_size - 1
                     /\ padding_x' = max(10, ((font_size - 1) * 40) \div 100)
                     /\ shrink_steps' = shrink_steps + 1
                     /\ npc' = npc
    /\ UNCHANGED <<bpc, target_height, nickname_len, badge, ipc, label_h,
                   info_y, textVars, statVars,
                   drawVars, pathVars, fontVars, poolVars, layoutVars,
                   signVars>>

SpecNick == NickInit /\ [][NickIterate]_vars /\ WF_vars(NickIterate)

\* C25: the nickname loop terminates under every measurement: the font size
\* goes down by exactly 1 per shrink step and stays between 16 and the
\* starting size, there are at most (starting size - 16) shrink steps, and
\* the loop exits.
C25_NicknameLoopTerminates ==
    /\ [](/\ font_size >= 16
          /\ font_size <= StartFontSize(target_height)
          /\ shrink_steps = StartFontSize(target_height) - font_size
          /\ shrink_steps <= StartFontSize(target_height) - 16)
    /\ <>(npc = "exit")

C25_Witness ==
    /\ npc = "exit"
    /\ target_height = 1000
    /\ font_size = 16
    /\ shrink_steps = 24
    /\ measured_w = <<3000>>

(***************************************************************************)
(* SpecInfo: the placement of the info line (date, streak bonus and        *)
(* continuous-days labels) of _draw_sync, lines 1034-1060, for a canvas    *)
(* height and the three label heights _measure_text_mixed reports.         *)
(***************************************************************************)
InfoInit ==
    /\ ipc = "measured"
    /\ target_height \in {680, 681, 700, 770, 1000}
    /\ label_h \in {<<d, b, c>> : d \in {16, 20, 26}, b \in {14, 18},
                                  c \in {18, 19, 24, 30}}
    /\ info_y = <<>>
    /\ bpc = "idle"
    /\ nickname_len = 0
    /\ badge = <<>>
    /\ npc = "idle"
    /\ font_size = 0
    /\ padding_x = 0
    /\ shrink_steps = 0
    /\ measured_w = <<>>
    /\ TextIdle
    /\ StatIdle
    /\ DrawIdle
    /\ OthersIdle("badge")

\* Lines 785-788, 1019, 1034-1036 and 1041-1060: info_line_y is set below
\* the progress bar, the bottom of the labels is compared with the footer
\* safe top, and the line is moved by shift_up, but not above min_info_y.
PlaceInfoLine ==
    /\ ipc = "measured"
    /\ LET max(a, b) == IF a >= b THEN a ELSE b
           card_h == (target_height * 60) \div 100
           card_y == (target_height - card_h) \div 2
           progress_title_y == card_y + card_h + 8
           bar_y == progress_title_y + 34
           bar_h == 16
           info_line_y == bar_y + bar_h + 8
           continuous_gap == 18
           continuous_y == info_line_y + continuous_gap
           info_bottom == max(info_line_y + max(label_h[1], label_h[2]),
                              continuous_y + label_h[3])
           footer_safe_top == target_height - 34
           shift_up == info_bottom - footer_safe_top
           min_info_y == bar_y + bar_h + 8
       IN  info_y' = [unadjusted |-> info_line_y,
                      drawn |-> IF info_bottom > footer_safe_top
                                THEN max(min_info_y, info_line_y - shift_up)
                                ELSE info_line_y,
                      bottom |-> info_bottom,
                      bar_bottom |-> bar_y + bar_h]
    /\ ipc' = "placed"
    /\ UNCHANGED <<bpc, target_height, nickname_len, badge, npc, font_size,
                   padding_x, shrink_steps, measured_w, label_h, textVars,
                   statVars, drawVars, pathVars, fontVars, poolVars,
                   layoutVars, signVars>>

SpecInfo == InfoInit /\ [][PlaceInfoLine]_vars

\* C26: when the bottom of the info line would exceed the footer safe top
\* (canvas height - 34), the info line is drawn at a y strictly smaller
\* than its unadjusted y, and never above the bottom of the progress bar
\* plus its 8 px gap.
C26_InfoLineShiftedUp ==
    (ipc = "placed" /\ info_y.bottom > target_height - 34) =>
        /\ info_y.drawn < info_y.unadjusted
        /\ info_y.drawn >= info_y.bar_bottom + 8

\* C27: sequential sign commands credit a user at most once per day: a
\* Sign.execute that starts when last_sign is of today takes the
\* already-signed branch and leaves total_days, continuous_days, impression,
\* level, last_sign and the wallet as the first sign-in of the day left
\* them.
C27_CreditedOncePerDay ==
    [][(/\ call' # call
        /\ sign_row # <<>>
        /\ sign_row[1].last_sign = <<today>>) =>
            /\ call'[1].outcome = "already"
            /\ sign_row' = sign_row
            /\ wallet_row' = wallet_row
            /\ inventory' = inventory]_vars

C27_Witness ==
    /\ call # <<>>
    /\ call[1].outcome = "already"
    /\ call[1].day = today
    /\ call[1].base_coins = 50
    /\ call[1].add_impression = 100
    /\ sign_row[1].total_days = 1
    /\ sign_row[1].impression = 0
    /\ wallet_row = <<1>>

(***************************************************************************)
(* SpecRace: two Sign.execute coroutines A and B of the same user on the   *)
(* same day.  A coroutine gives way to the other one at its awaits; a step *)
(* of the model runs one coroutine from one database await to a later one. *)
(***************************************************************************)
RaceInit ==
    /\ TextIdle /\ StatIdle /\ DrawIdle /\ OthersIdle("sign")
    /\ hpc = "race"
    /\ today = 1
    /\ config_next_score = 2500
    /\ sign_row \in StoredRows
    /\ wallet_row \in {<<>>, <<30>>}
    /\ inventory \in OwnedCards
    /\ call = <<>>
    /\ signed_days = DaysOfRow(sign_row)
    /\ used_cards = 0
    /\ calls \in [{"A", "B"} ->
                    [pc : {"start"}, userdata : {<<>>}, add_coins : {1, 50},
                     add_impression : {0, 100}]]

\* plugin.py 271-280: load_data, then the already-signed branch or on to
\* the sign-in.
RaceLoadData ==
    /\ hpc = "race"
    /\ \E c \in {"A", "B"} :
         /\ calls[c].pc = "start"
         /\ LET userdata == load_data(sign_row, wallet_row)
            IN  calls' = [calls EXCEPT
                    ![c].userdata = userdata,
                    ![c].pc = IF _is_today(userdata, today)
                              THEN "already" ELSE "resign"]
    /\ UNCHANGED <<hpc, today, config_next_score, sign_row, wallet_row,
                   inventory, call, signed_days, used_cards, textVars,
                   statVars, drawVars, pathVars, fontVars, poolVars,
                   badgeVars, layoutVars>>

\* plugin.py 283-290: auto_resign_with_owned_card, the second load_data and
\* the streak bonus on add_coins.
RaceAutoResign ==
    /\ hpc = "race"
    /\ \E c \in {"A", "B"} :
         /\ calls[c].pc = "resign"
         /\ LET resigned == auto_resign_with_owned_card(sign_row, inventory,
                                                        today, TRUE)
                userdata == load_data(resigned.sign, wallet_row)
                next_continuous_days ==
                    IF _is_continuous(userdata, today)
                    THEN userdata[1].row[1].continuous_days + 1 ELSE 1
                base_coins == calls[c].add_coins
            IN  /\ sign_row' = resigned.sign
                /\ inventory' = resigned.cards
                /\ used_cards' = IF resigned.cards = inventory
                                 THEN used_cards ELSE used_cards + 1
                /\ calls' = [calls EXCEPT
                       ![c].userdata = userdata,
                       ![c].add_coins =
                           IF next_continuous_days >= 7
                           THEN base_coins + (base_coins * 15) \div 100
                           ELSE IF next_continuous_days >= 3
                                THEN base_coins + (base_coins * 10) \div 100
                                ELSE base_coins,
                       ![c].pc = "update_sign"]
    /\ UNCHANGED <<hpc, today, config_next_score, wallet_row, call,
                   signed_days, textVars, statVars, drawVars, pathVars,
                   fontVars, poolVars, badgeVars, layoutVars>>

\* handle.py 206-216: _update_data writes the row of sign_data, computed
\* from the userdata this coroutine loaded.
RaceUpdateSign ==
    /\ hpc = "race"
    /\ \E c \in {"A", "B"} :
         /\ calls[c].pc = "update_sign"
         /\ sign_row' = _update_data(calls[c].userdata, calls[c].add_coins,
                                     calls[c].add_impression,
                                     config_next_score, today).sign
         /\ calls' = [calls EXCEPT ![c].pc = "update_wallet"]
    /\ signed_days' = signed_days \cup {today}
    /\ UNCHANGED <<hpc, today, config_next_score, wallet_row, inventory, call,
                   used_cards, textVars, statVars, drawVars, pathVars,
                   fontVars, poolVars, badgeVars, layoutVars>>

\* handle.py 217: _update_data writes the wallet; Sign.execute then reports
\* a fresh sign-in.
RaceUpdateWallet ==
    /\ hpc = "race"
    /\ \E c \in {"A", "B"} :
         /\ calls[c].pc = "update_wallet"
         /\ wallet_row' = _update_data(calls[c].userdata, calls[c].add_coins,
                                       calls[c].add_impression,
                                       config_next_score, today).wallet
         /\ calls' = [calls EXCEPT ![c].pc = "signed"]
    /\ UNCHANGED <<hpc, today, config_next_score, sign_row, inventory, call,
                   signed_days, used_cards, textVars, statVars, drawVars,
                   pathVars, fontVars, poolVars, badgeVars, layoutVars>>

SpecRace ==
    RaceInit /\ [][RaceLoadData \/ RaceAutoResign \/ RaceUpdateSign
                   \/ RaceUpdateWallet]_vars

\* C28: of two concurrent Sign.execute of one user on one day at most one
\* performs _update_data and reports a fresh sign-in; the other one takes the
\* already-signed branch, and the stored row and wallet are those of a
\* single sign-in.
C28_OneFreshSignIn ==
    /\ ~(\A c \in {"A", "B"} :
           calls[c].pc \in {"update_sign", "update_wallet", "signed"})
    /\ (\A c \in {"A", "B"} : calls[c].pc \in {"signed", "already"}) =>
         \E c \in {"A", "B"} :
            /\ calls[c].pc = "signed"
            /\ sign_row = _update_data(calls[c].userdata, calls[c].add_coins,
                                       calls[c].add_impression,
                                       config_next_score, today).sign
            /\ wallet_row = _update_data(calls[c].userdata, calls[c].add_coins,
                                         calls[c].add_impression,
                                         config_next_score, today).wallet

(***************************************************************************)
(* SpecResign: the resign cards.  On day 6 a user whose last sign-in was  *)
(* on one of the days 1..6 (or who has no record, or the empty last_sign   *)
(* of a fresh row) uses a card from the shop, or                           *)
(* auto_resign_with_owned_card runs, and signs in on the same day.  `call` *)
(* records the operation: what it saw, what it returned.  The shop         *)
(* consumes a card when its handler reports success (consume_count,        *)
(* handle.py 387-391).                                                     *)
(***************************************************************************)
ResignInit ==
    /\ TextIdle /\ StatIdle /\ DrawIdle /\ OthersIdle("sign")
    /\ hpc = "ready"
    /\ today = 6
    /\ config_next_score = 2500
    /\ sign_row \in
         {<<>>,
          <<[total_days |-> 0, last_sign |-> <<>>, continuous_days |-> 0,
             impression |-> 0, level |-> 0]>>}
         \cup {<<[total_days |-> 3, last_sign |-> <<d>>,
                  continuous_days |-> 3, impression |-> 0, level |-> 1]>> :
               d \in 1..6}
    /\ wallet_row = <<>>
    /\ inventory \in {<<>>} \cup [1..3 -> 0..1]
    /\ call = <<>>
    /\ signed_days = DaysOfRow(sign_row)
    /\ used_cards = 0
    /\ calls = <<>>

\* handle.py 380-391: the shop runs the handler of an owned card of kind
\* max_break_days (1, 2 or 3), which calls use_resign_card.
UseResignCard ==
    /\ hpc = "ready"
    /\ inventory # <<>>
    /\ \E max_break_days \in 1..3 :
         /\ inventory[max_break_days] > 0
         /\ LET used == use_resign_card(sign_row, max_break_days, today)
            IN  /\ sign_row' = used.sign
                /\ inventory' = IF used.success
                                THEN [inventory EXCEPT ![max_break_days] = @ - 1]
                                ELSE inventory
                /\ used_cards' = IF used.success THEN used_cards + 1
                                 ELSE used_cards
                /\ call' = <<[outcome |-> IF used.success THEN "card_used"
                                          ELSE "card_refused",
                              day |-> today, before_sign |-> sign_row,
                              before_cards |-> inventory,
                              max_break_days |-> max_break_days]>>
    /\ UNCHANGED <<hpc, today, config_next_score, wallet_row, signed_days,
                   calls, textVars, statVars, drawVars, pathVars, fontVars,
                   poolVars, badgeVars, layoutVars>>

\* handle.py 278-349: one call of auto_resign_with_owned_card, with a
\* database that answers use_resign_card or fails it.
AutoResign ==
    /\ hpc = "ready"
    /\ \E db_ok \in BOOLEAN :
         LET resigned == auto_resign_with_owned_card(sign_row, inventory,
                                                     today, db_ok)
         IN  /\ sign_row' = resigned.sign
             /\ inventory' = resigned.cards
             /\ used_cards' = IF resigned.returned THEN used_cards + 1
                              ELSE used_cards
             /\ call' = <<[outcome |-> IF resigned.returned THEN "auto_true"
                                       ELSE "auto_false",
                           day |-> today, before_sign |-> sign_row,
                           before_cards |-> inventory,
                           tried |-> resigned.tried, db_ok |-> db_ok]>>
    /\ UNCHANGED <<hpc, today, config_next_score, wallet_row, signed_days,
                   calls, textVars, statVars, drawVars, pathVars, fontVars,
                   poolVars, badgeVars, layoutVars>>

SpecResign == ResignInit /\ [][UseResignCard \/ AutoResign \/ SignIn]_vars

====
